---- MODULE Spec2Model ----
(***************************************************************************)
(* Model of the multi-agent consensus engine of                           *)
(* src/qwen_agi_system/core/multi_agent_consensus_system.py.              *)
(*                                                                         *)
(* The engine's entry point reach_consensus is modelled step by step      *)
(* (one action per stretch of code between the places an exception can    *)
(* leave it); the components it is built from (landscape analysis, the    *)
(* consensus strategies, the fallback, the detector, the resolver, the    *)
(* evaluator, validation and amplification) are operators, and each can   *)
(* also be invoked directly on a prepared position map, as a caller of    *)
(* these methods would.                                                    *)
(*                                                                         *)
(* Numbers are exact rationals [n, d]; Python computes with IEEE doubles. *)
(* Text is a set of lower-cased words; "keyword in text" is a substring   *)
(* test, which for keywords without blanks is a test on single words.     *)
(***************************************************************************)
EXTENDS Integers, Sequences, FiniteSets, TLC

\* ------------------------------------------------------------------ bounds
NumRoles == 3
MaxDenominator == 1000000
NumCalls == 2
TickSeconds == 200
MaxElapsed == 400

\* ------------------------------------------------------- program constants
deliberation_timeout == 300

\* --------------------------------------------------------------- rationals
RECURSIVE GCD(_, _)
GCD(a, b) == IF b = 0 THEN a ELSE GCD(b, a % b)

Abs(x) == IF x < 0 THEN -x ELSE x

\* the rational n/d in lowest terms, d > 0
Rat(n, d) ==
    LET g == GCD(Abs(n), Abs(d))
        s == IF d < 0 THEN -1 ELSE 1
    IN [n |-> (s * n) \div g, d |-> (s * d) \div g]

Zero == [n |-> 0, d |-> 1]
One == [n |-> 1, d |-> 1]
Pct(p) == Rat(p, 100)

\* the operations reduce before they multiply, to keep the integers small
RAdd(a, b) ==
    LET g == GCD(a.d, b.d)
    IN Rat(a.n * (b.d \div g) + b.n * (a.d \div g), (a.d \div g) * b.d)
RMul(a, b) ==
    LET g1 == GCD(Abs(a.n), b.d)
        g2 == GCD(Abs(b.n), a.d)
    IN Rat((a.n \div g1) * (b.n \div g2), (a.d \div g2) * (b.d \div g1))
RDiv(a, b) == RMul(a, IF b.n < 0 THEN [n |-> -b.d, d |-> -b.n] ELSE [n |-> b.d, d |-> b.n])
RSub(a, b) == RAdd(a, [n |-> -b.n, d |-> b.d])
\* an/ad < bn/bd for positive denominators, by the integer parts and then the
\* reciprocals of the fractional parts: no product is formed
RECURSIVE FracLt(_, _, _, _)
FracLt(an, ad, bn, bd) ==
    IF an \div ad # bn \div bd THEN an \div ad < bn \div bd
    ELSE IF bn % bd = 0 THEN FALSE
    ELSE IF an % ad = 0 THEN TRUE
    ELSE FracLt(bd, bn % bd, ad, an % ad)

\* a value without a denominator (nan) is below nothing and above nothing
RLt(a, b) ==
    IF a.d = 0 \/ b.d = 0
    THEN LET g == GCD(a.d, b.d) IN a.n * (b.d \div g) < b.n * (a.d \div g)
    ELSE FracLt(a.n, a.d, b.n, b.d)
RLe(a, b) ==
    IF a.d = 0 \/ b.d = 0
    THEN LET g == GCD(a.d, b.d) IN a.n * (b.d \div g) <= b.n * (a.d \div g)
    ELSE ~FracLt(b.n, b.d, a.n, a.d)
RGt(a, b) == RLt(b, a)
RGe(a, b) == RLe(b, a)
RMin(a, b) == IF RLt(b, a) THEN b ELSE a

RECURSIVE RSum(_)
RSum(s) == IF s = <<>> THEN Zero ELSE RAdd(Head(s), RSum(Tail(s)))

\* np.mean of a non-empty list
RMean(s) == RDiv(RSum(s), Rat(Len(s), 1))

InUnit(x) == x.d > 0 /\ RLe(Zero, x) /\ RLe(x, One)

\* ------------------------------------------------------------- enumerations
\* AgentRole, in the order of the enumeration's first members used here
RoleOrder ==
    << "queen_coordinator", "security_specialist", "data_analytics",
       "documentation_tech_writer" >>

Roles == { RoleOrder[i] : i \in 1..NumRoles }

ConsensusStrategy ==
    { "weighted_voting", "specialist_authority", "evidence_based",
      "collaborative_synthesis", "iterative_refinement", "conflict_resolution",
      "emergent_agreement", "hybrid_adaptive" }

ConsensusLevel ==
    { "unanimous", "majority_super", "majority_strong", "majority_simple",
      "plurality", "specialist_override" }

\* the ordering the levels are documented with (6 = strongest)
LevelRank(l) ==
    CASE l = "unanimous" -> 6
      [] l = "majority_super" -> 5
      [] l = "majority_strong" -> 4
      [] l = "majority_simple" -> 3
      [] l = "plurality" -> 2
      [] l = "specialist_override" -> 1

None == "none"


\* ------------------------------------------------------------------- text
\* the keywords of the engine's keyword tables that occur in a word of the
\* model's vocabulary as substrings ("keyword in text.lower()")
KeywordsIn(word) ==
    CASE word = "implement" -> {"implement"}
      [] word = "avoid" -> {"avoid"}
      [] word = "users" -> {"user"}
      [] word = "agile" -> {"agile"}
      [] word = "waterfall" -> {"waterfall"}
      [] word = "data" -> {"data"}
      [] word = "metric" -> {"metric"}
      [] word = "study" -> {"study"}
      [] word = "research" -> {"research"}
      [] word = "security" -> {"security"}
      [] word = "addresses" -> {"add"}
      [] word = "critical" -> {"critical"}
      [] word = "optional" -> {"optional"}
      [] word = "scalable" -> {"scalable"}
      [] word = "conservative" -> {"conservative"}
      [] word = "measurement" -> {"measurement"}
      [] word = "specific" -> {"specific"}
      [] word = "example" -> {"example"}
      [] OTHER -> {}

\* keyword in text
Occurs(keyword, text) == \E w \in text : keyword \in KeywordsIn(w)

\* [word for word in keywords if word in text]
Matches(keywords, text) == SelectSeq(keywords, LAMBDA k : Occurs(k, text))

\* ------------------------------------------------------------- input pools
ContentFull == {"implement", "the", "cache", "layer", "for", "users"}
ContentNear == {"implement", "the", "cache", "layer", "for"}
ContentAgainst == {"avoid", "the", "cache"}
ContentUrgent == {"critical", "scalable", "cache", "layer"}
ContentLater == {"avoid", "optional", "conservative", "cache"}

EvPlain == [chars |-> 16, words |-> {"owasp", "guidelines"}]
EvData == [chars |-> 25, words |-> {"benchmark", "data", "and", "metric"}]
EvRich == [chars |-> 120, words |-> {"data", "metric", "study", "research", "report"}]

\* the positions a participant may hold: content, reasoning, confidence, evidence
PositionPool ==
    << [content |-> ContentFull, reasoning |-> {"agile"},
        confidence |-> Pct(95), evidence |-> <<EvData, EvRich>>],
       [content |-> ContentNear, reasoning |-> {"plain"},
        confidence |-> Pct(50), evidence |-> <<>>],
       [content |-> ContentAgainst, reasoning |-> {"waterfall"},
        confidence |-> Pct(40), evidence |-> <<EvPlain>>],
       [content |-> ContentFull, reasoning |-> {"agile"},
        confidence |-> Pct(30), evidence |-> <<>>],
       [content |-> ContentUrgent, reasoning |-> {"plain"},
        confidence |-> Pct(80), evidence |-> <<EvData>>],
       [content |-> ContentLater, reasoning |-> {"waterfall"},
        confidence |-> Pct(60), evidence |-> <<>>] >>

\* AgentThought (ten_agent_architecture.py): the fields the engine reads
Thought(role, p) ==
    [agent_role |-> role, content |-> p.content, reasoning |-> p.reasoning,
     confidence |-> p.confidence, evidence |-> p.evidence]

\* a position map is a Python dict: entries in insertion order, keys distinct.
\* The maps drawn here list their keys in the order of RoleOrder.
KeySeqs ==
    { ks \in UNION { [1..n -> Roles] : n \in 0..NumRoles } :
        \A i, j \in DOMAIN ks : i < j =>
            (CHOOSE a \in DOMAIN RoleOrder : RoleOrder[a] = ks[i])
              < (CHOOSE b \in DOMAIN RoleOrder : RoleOrder[b] = ks[j]) }

PositionMaps ==
    UNION { { [i \in DOMAIN ks |->
                 [key |-> ks[i], thought |-> Thought(ks[i], PositionPool[ps[i]])]] :
              ps \in [DOMAIN ks -> DOMAIN PositionPool] } : ks \in KeySeqs }

Keys(m) == { m[i].key : i \in DOMAIN m }
KeyList(m) == [i \in DOMAIN m |-> m[i].key]
Get(m, k) == (CHOOSE i \in DOMAIN m : m[i].key = k)
ThoughtOf(m, k) == m[Get(m, k)].thought
\* m[k] = v on a dict: a new key goes to the end, an old one keeps its place
SetItem(m, k, v) ==
    IF k \in Keys(m) THEN [m EXCEPT ![Get(m, k)].thought = v]
    ELSE Append(m, [key |-> k, thought |-> v])
Confidences(m) == [i \in DOMAIN m |-> m[i].thought.confidence]

\* evidence strings for the evaluator: a length, and the first hits of the
\* specificity keywords as the words (as many as fit in the length)
EvidenceLengths == {16, 60, 120}
EvidenceWords(hits) ==
    { (<< "data", "metric", "measurement", "specific", "example", "study",
          "research" >>)[i] : i \in 1..hits }
EvidenceItems ==
    { [chars |-> c, words |-> EvidenceWords(h)] :
          c \in EvidenceLengths, h \in 0..7 } \
    { [chars |-> 16, words |-> EvidenceWords(h)] : h \in 3..7 }
EvidenceLists == {<<>>} \cup { <<e>> : e \in EvidenceItems }

\* AGITask: the fields the engine reads
Tasks ==
    { [task_id |-> "t_secure", description |-> {"improve", "data", "security"}],
      [task_id |-> "t_docs", description |-> {"write", "the", "docs"}] }

\* ------------------------------------------------------ EvidenceEvaluator
specificity_keywords ==
    << "data", "metric", "measurement", "specific", "example", "study", "research" >>

evaluate_single_evidence_unclamped(evidence) ==
    IF evidence.chars = 0 THEN Zero
    ELSE LET length_score == RMin(One, Rat(evidence.chars, 100))
             specificity_count == Len(Matches(specificity_keywords, evidence.words))
         IN RAdd(RAdd(Pct(50), RMul(length_score, Pct(20))),
                 RMul(Rat(specificity_count, 1), Pct(10)))

evaluate_single_evidence(evidence) ==
    IF evidence.chars = 0 THEN Zero
    ELSE LET length_score == RMin(One, Rat(evidence.chars, 100))
             specificity_count == Len(Matches(specificity_keywords, evidence.words))
             quality_score ==
                 RAdd(RAdd(Pct(50), RMul(length_score, Pct(20))),
                      RMul(Rat(specificity_count, 1), Pct(10)))
         IN RMin(One, quality_score)

\* evidence_registry: role -> list of evidence; the result: role -> score
evaluate_evidence_quality(evidence_registry) ==
    [role \in DOMAIN evidence_registry |->
        IF evidence_registry[role] = <<>> THEN Zero
        ELSE RMean([i \in DOMAIN evidence_registry[role] |->
                       evaluate_single_evidence(evidence_registry[role][i])])]

\* -------------------------------------------------------- ConflictDetector
opposite_keywords ==
    << <<"yes", "no">>, <<"true", "false">>, <<"implement", "avoid">>,
       <<"enable", "disable">>, <<"include", "exclude">>, <<"add", "remove">> >>

priority_indicators == << "critical", "urgent", "important", "optional", "secondary" >>

approach_keywords ==
    << "top-down", "bottom-up", "iterative", "waterfall", "agile",
       "proactive", "reactive", "preventive", "corrective" >>

strategic_keywords ==
    << "long-term", "short-term", "scalable", "maintainable",
       "innovative", "conservative", "aggressive", "defensive" >>

\* _are_opposite_positions with the first test of the loop only: word1 in the
\* first text and word2 in the second
are_opposite_positions_oneway(content1, content2) ==
    \E i \in DOMAIN opposite_keywords :
        Occurs(opposite_keywords[i][1], content1)
        /\ Occurs(opposite_keywords[i][2], content2)

are_opposite_positions(content1, content2) ==
    \E i \in DOMAIN opposite_keywords :
        LET word1 == opposite_keywords[i][1]
            word2 == opposite_keywords[i][2]
        IN \/ Occurs(word1, content1) /\ Occurs(word2, content2)
           \/ Occurs(word2, content1) /\ Occurs(word1, content2)

\* both texts match a keyword of the list and the first matches differ
FirstMatchesDiffer(keywords, text1, text2) ==
    LET m1 == Matches(keywords, text1)
        m2 == Matches(keywords, text2)
    IN m1 # <<>> /\ m2 # <<>> /\ m1[1] # m2[1]

have_different_priorities(content1, content2) ==
    FirstMatchesDiffer(priority_indicators, content1, content2)

have_different_approaches(reasoning1, reasoning2) ==
    FirstMatchesDiffer(approach_keywords, reasoning1, reasoning2)

have_strategic_divergence(content1, content2) ==
    FirstMatchesDiffer(strategic_keywords, content1, content2)

analyze_conflict_between_agents(thought1, thought2) ==
    (IF are_opposite_positions(thought1.content, thought2.content)
       THEN << <<"factual_disagreement", "Opposite conclusions">> >> ELSE <<>>)
    \o (IF have_different_priorities(thought1.content, thought2.content)
       THEN << <<"priority_disagreement", "Different priority levels">> >> ELSE <<>>)
    \o (IF have_different_approaches(thought1.reasoning, thought2.reasoning)
       THEN << <<"methodological_conflict", "Different methodological approaches">> >>
       ELSE <<>>)
    \o (IF have_strategic_divergence(thought1.content, thought2.content)
       THEN << <<"strategic_divergence", "Different strategic directions">> >> ELSE <<>>)

\* the conflict records of the pair (i, j) of a position map
PairConflicts(m, i, j) ==
    LET found == analyze_conflict_between_agents(m[i].thought, m[j].thought)
    IN [k \in DOMAIN found |->
          [type |-> found[k][1], role1 |-> m[i].key, role2 |-> m[j].key,
           description |-> found[k][2]]]

RECURSIVE ConflictsFrom(_, _, _)
ConflictsFrom(m, i, j) ==
    IF i > Len(m) THEN <<>>
    ELSE IF j > Len(m) THEN ConflictsFrom(m, i + 1, i + 2)
    ELSE PairConflicts(m, i, j) \o ConflictsFrom(m, i, j + 1)

detect_conflicts(agent_thoughts) == ConflictsFrom(agent_thoughts, 1, 2)


\* ------------------------------------------------------- results of a call
\* CollectiveInsight (ten_agent_architecture.py). insight_id and
\* synthesis_method are kept as the list of their "_"-joined parts, without
\* the clock reading; synthesized_content as the list of the parts joined.
Insight(id, agents, content, level, score, views, method) ==
    [insight_id |-> id, contributing_agents |-> agents,
     synthesized_content |-> content, consensus_level |-> level,
     confidence_score |-> score, conflicting_views |-> views,
     synthesis_method |-> method]

NoInsight == Insight(<<>>, <<>>, <<>>, None, Zero, <<>>, <<>>)

\* what a method call leaves: a returned insight or a raised exception, the
\* deliberation and the position map as the call left them, and the
\* normalized weights weighted voting worked with
Returned(insight, delib, thoughts, weights) ==
    [ok |-> TRUE, exc |-> None, insight |-> insight, deliberation |-> delib,
     agent_thoughts |-> thoughts, voting_weights |-> weights]

Raised(exc, delib, thoughts) ==
    [ok |-> FALSE, exc |-> exc, insight |-> NoInsight, deliberation |-> delib,
     agent_thoughts |-> thoughts, voting_weights |-> <<>>]

\* ------------------------------------------------------------ deliberation
\* the fields of the dataclass ConsensusDeliberation without a default
RequiredFields ==
    { "deliberation_id", "task", "strategy", "voting_method", "phases",
      "proposals", "agent_positions", "evidence_registry", "conflict_log",
      "voting_record" }

\* the fields with a default, and the defaults
DefaultFields ==
    [final_consensus |-> NoInsight, deliberation_end |-> None,
     quality_metrics |-> None]

\* the dataclass constructor: every required field must be passed
ConsensusDeliberation(args) ==
    IF RequiredFields \subseteq DOMAIN args
    THEN [ok |-> TRUE, exc |-> None, val |-> args @@ DefaultFields]
    ELSE [ok |-> FALSE, exc |-> "TypeError", val |-> DefaultFields]

agent_positions_of(m) == [k \in Keys(m) |-> ThoughtOf(m, k).content]
evidence_registry_of(m) == [k \in Keys(m) |-> ThoughtOf(m, k).evidence]

\* the keyword arguments reach_consensus passes to the constructor
ReachConsensusArgs(task, agent_thoughts, strategy, voting_method) ==
    [deliberation_id |-> <<"deliberation", task.task_id>>,
     task |-> task, strategy |-> strategy, voting_method |-> voting_method,
     phases |-> <<"initial_positions">>, proposals |-> <<>>,
     agent_positions |-> agent_positions_of(agent_thoughts),
     evidence_registry |-> evidence_registry_of(agent_thoughts),
     conflict_log |-> <<>>]

\* ------------------------------------------------------ landscape analysis
text_similarity(text1, text2) ==
    IF Cardinality(text1 \cup text2) > 0
    THEN Rat(Cardinality(text1 \cap text2), Cardinality(text1 \cup text2))
    ELSE Zero

calculate_agreement_score(m) ==
    IF Len(m) < 2 THEN One
    ELSE LET pairs == { <<i, j>> \in (DOMAIN m) \X (DOMAIN m) : i < j }
             sims == [p \in pairs |->
                        text_similarity(m[p[1]].thought.content, m[p[2]].thought.content)]
             RECURSIVE Total(_)
             Total(ps) == IF ps = {} THEN Zero
                          ELSE LET p == CHOOSE q \in ps : TRUE
                               IN RAdd(sims[p], Total(ps \ {p}))
         IN RDiv(Total(pairs), Rat(Cardinality(pairs), 1))

\* np.mean of an empty list is nan: every comparison with it is false
NaN == [n |-> 0, d |-> 0]
np_mean(s) == IF s = <<>> THEN NaN ELSE RMean(s)

\* _analyze_consensus_landscape. When the first rule does not match, the
\* second compares evidence_quality, which is the dict evaluate_evidence_quality
\* returns, with the float 0.7: Python raises TypeError there, so the rules
\* after it are never reached.
analyze_consensus_landscape(task, agent_thoughts) ==
    LET Analysis(agreement_score, avg_confidence, conflicts_detected,
                 evidence_quality, first_rule) ==
            [ok |-> first_rule,
             exc |-> IF first_rule THEN None ELSE "TypeError",
             agreement_score |-> agreement_score,
             avg_confidence |-> avg_confidence,
             conflicts_detected |-> conflicts_detected,
             evidence_quality |-> evidence_quality,
             recommended_strategy |-> IF first_rule THEN "weighted_voting" ELSE None,
             recommended_voting |-> IF first_rule THEN "weighted_consensus" ELSE None]
        Rules(agreement_score, avg_confidence, conflicts_detected, evidence_quality) ==
            Analysis(agreement_score, avg_confidence, conflicts_detected,
                     evidence_quality,
                     RGt(agreement_score, Pct(80)) /\ conflicts_detected = 0)
    IN Rules(calculate_agreement_score(agent_thoughts),
             np_mean(Confidences(agent_thoughts)),
             Len(detect_conflicts(agent_thoughts)),
             evaluate_evidence_quality(evidence_registry_of(agent_thoughts)))

\* ---------------------------------------------------------------- fallback
\* _fallback_consensus with an ultimate fallback that keeps the position's
\* confidence instead of halving it
fallback_consensus_unhalved(agent_thoughts, task) ==
    LET high == SelectSeq(agent_thoughts, LAMBDA e : RGt(e.thought.confidence, Pct(50)))
    IN IF high # <<>>
       THEN Insight(<<"fallback">>, KeyList(high),
                    [i \in DOMAIN high |-> high[i].thought.content],
                    "plurality", RMean(Confidences(high)), <<>>,
                    <<"fallback_consensus">>)
       ELSE IF agent_thoughts # <<>>
       THEN LET any_thought == agent_thoughts[1].thought
            IN Insight(<<"ultimate_fallback">>, <<any_thought.agent_role>>,
                       <<any_thought.content>>, "specialist_override",
                       any_thought.confidence, <<>>, <<"ultimate_fallback">>)
       ELSE Insight(<<"emergency">>, <<>>, <<"Unable to reach consensus">>,
                    "specialist_override", Pct(10), <<>>, <<"emergency_fallback">>)

\* _fallback_consensus
fallback_consensus(agent_thoughts, task) ==
    LET high == SelectSeq(agent_thoughts, LAMBDA e : RGt(e.thought.confidence, Pct(50)))
    IN IF high # <<>>
       THEN Insight(<<"fallback">>, KeyList(high),
                    [i \in DOMAIN high |-> high[i].thought.content],
                    "plurality", RMean(Confidences(high)), <<>>,
                    <<"fallback_consensus">>)
       ELSE IF agent_thoughts # <<>>
       THEN LET any_thought == agent_thoughts[1].thought
            IN Insight(<<"ultimate_fallback">>, <<any_thought.agent_role>>,
                       <<any_thought.content>>, "specialist_override",
                       RMul(any_thought.confidence, Pct(50)), <<>>,
                       <<"ultimate_fallback">>)
       ELSE Insight(<<"emergency">>, <<>>, <<"Unable to reach consensus">>,
                    "specialist_override", Pct(10), <<>>, <<"emergency_fallback">>)


\* --------------------------------------------------------- weighted voting
\* _initialize_specialist_weights, in per cent
specialist_weights ==
    [queen_coordinator |-> 100, security_specialist |-> 95, code_architect |-> 90,
     performance_optimizer |-> 85, testing_quality |-> 85, integration_expert |-> 80,
     ui_ux_designer |-> 75, data_analytics |-> 75, documentation_tech_writer |-> 70,
     innovation_strategist |-> 70]

\* dict.get(key, default)
DictGet(dict, key, default) == IF key \in DOMAIN dict THEN dict[key] ELSE default

\* the combined weight of each entry of the map, in the map's order
CombinedWeights(agent_thoughts, evidence_scores) ==
    [i \in DOMAIN agent_thoughts |->
        LET role == agent_thoughts[i].key
            specialist_weight == Pct(DictGet(specialist_weights, role, 50))
            evidence_weight == DictGet(evidence_scores, role, Pct(50))
            confidence_weight == agent_thoughts[i].thought.confidence
        IN RAdd(RAdd(RMul(specialist_weight, Pct(40)), RMul(evidence_weight, Pct(30))),
                RMul(confidence_weight, Pct(30)))]

\* the weights left as they were combined, not divided by their sum
NormalizeWeights_skipped(weights) == weights

\* "Normalize weights": divided by their sum when the sum is positive
NormalizeWeights(weights) ==
    LET total_weight == RSum(weights)
    IN IF RGt(total_weight, Zero)
       THEN [i \in DOMAIN weights |-> RDiv(weights[i], total_weight)]
       ELSE weights

RECURSIVE RMax(_)
RMax(s) == IF Len(s) = 1 THEN s[1]
           ELSE LET m == RMax(Tail(s)) IN IF RLt(s[1], m) THEN m ELSE s[1]

\* _determine_consensus_level_from_weights
determine_consensus_level_from_weights(weights, total_agents) ==
    IF weights = <<>> THEN "plurality"
    ELSE LET max_weight == RMax(weights)
             total_weight == RSum(weights)
             dominance_ratio == IF RGt(total_weight, Zero)
                                THEN RDiv(max_weight, total_weight) ELSE Zero
         IN IF RGt(dominance_ratio, Pct(70)) THEN "specialist_override"
            ELSE IF RGt(dominance_ratio, Pct(50)) THEN "majority_super"
            ELSE IF Len(weights) * 10 >= total_agents * 7 THEN "majority_strong"
            ELSE IF Len(weights) * 10 >= total_agents * 6 THEN "majority_simple"
            ELSE "plurality"

\* list.sort(key=weight, reverse=True): stable, heaviest first
RECURSIVE InsertByWeight(_, _)
InsertByWeight(x, sorted) ==
    IF sorted = <<>> THEN <<x>>
    ELSE IF RLt(Head(sorted).weight, x.weight) THEN <<x>> \o sorted
    ELSE <<Head(sorted)>> \o InsertByWeight(x, Tail(sorted))

RECURSIVE SortByWeight(_)
SortByWeight(s) ==
    IF s = <<>> THEN <<>>
    ELSE InsertByWeight(s[Len(s)], SortByWeight(SubSeq(s, 1, Len(s) - 1)))

\* _synthesize_weighted_positions: the positions heavier than 0.1, heaviest first
synthesize_weighted_positions(weighted_positions) ==
    SelectSeq(SortByWeight(weighted_positions), LAMBDA x : RGt(x.weight, Pct(10)))

\* _weighted_voting_consensus
weighted_voting_consensus(deliberation, agent_thoughts) ==
    LET Decide(delib, voting_weights, weighted_positions) ==
            Returned(
              IF weighted_positions # <<>>
              THEN Insight(<<"weighted_voting">>, KeyList(agent_thoughts),
                           synthesize_weighted_positions(weighted_positions),
                           determine_consensus_level_from_weights(
                               voting_weights, Len(agent_thoughts)),
                           RMin(One, RMul(RMean(Confidences(agent_thoughts)), Pct(110))),
                           <<>>, <<"weighted_voting">>)
              ELSE fallback_consensus(agent_thoughts, delib.task),
              delib, agent_thoughts, voting_weights)
        Vote(delib, voting_weights) ==
            Decide(delib, voting_weights,
                   SelectSeq([i \in DOMAIN agent_thoughts |->
                                [position |-> agent_thoughts[i].thought.content,
                                 weight |-> voting_weights[i]]],
                             LAMBDA x : RGt(x.weight, Zero)))
    IN Vote([deliberation EXCEPT !.phases = @ \o <<"evidence_presentation">>],
            NormalizeWeights(
                CombinedWeights(agent_thoughts,
                                evaluate_evidence_quality(
                                    deliberation.evidence_registry))))

\* ---------------------------------------------------- specialist authority
\* the roles of specialist_keywords in the dict's order, with their keywords
specialist_keywords ==
    << [role |-> "security_specialist",
        keywords |-> <<"security", "auth", "encryption", "vulnerability">>],
       [role |-> "code_architect",
        keywords |-> <<"architecture", "structure", "design", "framework">>],
       [role |-> "performance_optimizer",
        keywords |-> <<"performance", "optimization", "speed", "efficiency">>],
       [role |-> "testing_quality",
        keywords |-> <<"test", "quality", "validation", "verification">>],
       [role |-> "integration_expert",
        keywords |-> <<"integration", "api", "connect", "system">>],
       [role |-> "ui_ux_designer",
        keywords |-> <<"ui", "ux", "interface", "user">>],
       [role |-> "data_analytics",
        keywords |-> <<"data", "analytics", "metrics", "analysis">>] >>

\* _determine_lead_specialist: max() returns the first of the best-scoring roles
determine_lead_specialist(task, agent_thoughts) ==
    LET scored == SelectSeq(specialist_keywords,
                            LAMBDA e : e.role \in Keys(agent_thoughts))
        score(e) == RMul(Rat(Len(Matches(e.keywords, task.description)), 1),
                         ThoughtOf(agent_thoughts, e.role).confidence)
        best == CHOOSE i \in DOMAIN scored :
                   /\ \A j \in DOMAIN scored : RLe(score(scored[j]), score(scored[i]))
                   /\ \A j \in 1..(i - 1) : RLt(score(scored[j]), score(scored[i]))
    IN IF scored # <<>> THEN scored[best].role ELSE "queen_coordinator"

\* _specialist_authority_consensus
specialist_authority_consensus(deliberation, agent_thoughts) ==
    LET Led(lead_specialist, specialist_thought, supporting_agents, conflicting) ==
            Returned(
              Insight(<<"specialist_authority">>,
                      <<lead_specialist>> \o KeyList(supporting_agents),
                      <<specialist_thought.content>>
                          \o [i \in DOMAIN supporting_agents |->
                                 supporting_agents[i].thought.content],
                      "specialist_override",
                      RMul(specialist_thought.confidence, Pct(90)),
                      [i \in DOMAIN conflicting |->
                          <<conflicting[i].key, conflicting[i].thought.content>>],
                      <<"specialist_authority">>),
              deliberation, agent_thoughts, <<>>)
        Lead(lead_specialist) ==
            IF lead_specialist \in Keys(agent_thoughts)
            THEN Led(lead_specialist,
                     ThoughtOf(agent_thoughts, lead_specialist),
                     SelectSeq(agent_thoughts,
                               LAMBDA e : e.key # lead_specialist
                                          /\ RGt(e.thought.confidence, Pct(60))),
                     SelectSeq(agent_thoughts,
                               LAMBDA e : e.key # lead_specialist
                                          /\ RLt(e.thought.confidence, Pct(40))))
            ELSE weighted_voting_consensus(deliberation, agent_thoughts)
    IN Lead(determine_lead_specialist(deliberation.task, agent_thoughts))

\* ----------------------------------------------------------- evidence based
\* _evidence_based_consensus: with a qualified participant it goes on to call
\* _synthesize_evidence_based_positions, which the class does not define
evidence_based_consensus(deliberation, agent_thoughts) ==
    LET Qualified(evidence_scores) ==
            SelectSeq(agent_thoughts,
                      LAMBDA e : RGt(DictGet(evidence_scores, e.key, Zero), Pct(60)))
    IN IF Qualified(evaluate_evidence_quality(deliberation.evidence_registry)) # <<>>
       THEN Raised("AttributeError", deliberation, agent_thoughts)
       ELSE weighted_voting_consensus(deliberation, agent_thoughts)


\* -------------------------------------------------------- ConflictResolver
\* The resolver works on shallow copies of the dict: the copies share the
\* AgentThought objects with the caller's dict, three of the four policies
\* change the objects in place, and the fourth binds one new object to two
\* keys of the copy. objs are the objects (the first Len(map) are the
\* caller's, in the map's order), refs the copy's entries.
HeapOf(m) ==
    [objs |-> [i \in DOMAIN m |-> m[i].thought],
     refs |-> [i \in DOMAIN m |-> [key |-> m[i].key, ref |-> i]]]

HasKey(h, role) == \E i \in DOMAIN h.refs : h.refs[i].key = role
RefOf(h, role) == h.refs[CHOOSE i \in DOMAIN h.refs : h.refs[i].key = role].ref

\* thought.confidence *= factor; thought.reasoning += words
Touch(h, ref, factor, words) ==
    [h EXCEPT !.objs[ref].confidence = RMul(@, factor),
              !.objs[ref].reasoning = @ \cup words]

FavorWords(role) ==
    {"[conflict", "resolved", "in", "favor", "of", role, "due", "to",
     "stronger", "evidence]"}

EqualWords == {"[conflict", "detected", "-", "evidence", "equally", "strong]"}

\* _resolve_factual_disagreement halving both sides whatever their evidence
ResolveFactual_both_halved(h, c) ==
    IF ~(HasKey(h, c.role1) /\ HasKey(h, c.role2)) THEN h
    ELSE Touch(Touch(h, RefOf(h, c.role1), Pct(50), EqualWords),
               RefOf(h, c.role2), Pct(50), EqualWords)

\* one record of _resolve_factual_disagreement
ResolveFactual(h, c) ==
    IF ~(HasKey(h, c.role1) /\ HasKey(h, c.role2)) THEN h
    ELSE LET r1 == RefOf(h, c.role1)
             r2 == RefOf(h, c.role2)
             evidence1_strength ==
                 RMul(Rat(Len(h.objs[r1].evidence), 1), h.objs[r1].confidence)
             evidence2_strength ==
                 RMul(Rat(Len(h.objs[r2].evidence), 1), h.objs[r2].confidence)
         IN IF RGt(evidence1_strength, evidence2_strength)
            THEN Touch(h, r2, Pct(50), FavorWords(c.role1))
            ELSE IF RGt(evidence2_strength, evidence1_strength)
            THEN Touch(h, r1, Pct(50), FavorWords(c.role2))
            ELSE Touch(Touch(h, r1, Pct(80), EqualWords), r2, Pct(80), EqualWords)

\* _resolve_priority_disagreement lowering the confidence of the one side of
\* a record that is in the map when the other side is not
ResolvePriority_one_sided(h, c) ==
    IF HasKey(h, c.role1) /\ ~HasKey(h, c.role2)
    THEN [h EXCEPT !.objs[RefOf(h, c.role1)].confidence = RMul(@, Pct(90))]
    ELSE IF ~(HasKey(h, c.role1) /\ HasKey(h, c.role2)) THEN h
    ELSE LET r1 == RefOf(h, c.role1)
             r2 == RefOf(h, c.role2)
             h3 == [h EXCEPT !.objs[r1].confidence = RMul(@, Pct(90))]
         IN [h3 EXCEPT !.objs[r2].confidence = RMul(@, Pct(90))]

\* one record of _resolve_priority_disagreement
ResolvePriority(h, c) ==
    IF ~(HasKey(h, c.role1) /\ HasKey(h, c.role2)) THEN h
    ELSE LET r1 == RefOf(h, c.role1)
             r2 == RefOf(h, c.role2)
             compromised_reasoning ==
                 {"priority", "consideration:", "|", "alternative", "perspective:"}
                 \cup h.objs[r1].reasoning \cup h.objs[r2].reasoning
             h1 == [h EXCEPT !.objs[r1].reasoning = compromised_reasoning]
             h2 == [h1 EXCEPT !.objs[r2].reasoning = compromised_reasoning]
             h3 == [h2 EXCEPT !.objs[r1].confidence = RMul(@, Pct(90))]
         IN [h3 EXCEPT !.objs[r2].confidence = RMul(@, Pct(90))]

\* list(set(evidence1 + evidence2)): each item once, in some order
RECURSIVE SetToSeq(_)
SetToSeq(S) == IF S = {} THEN <<>>
               ELSE LET x == CHOOSE y \in S : TRUE IN <<x>> \o SetToSeq(S \ {x})

Range(s) == { s[i] : i \in DOMAIN s }

\* _resolve_methodological_conflict giving the hybrid the plain mean of the
\* two confidences
ResolveMethodological_undamped(h, c) ==
    IF ~(HasKey(h, c.role1) /\ HasKey(h, c.role2)) THEN h
    ELSE LET thought1 == h.objs[RefOf(h, c.role1)]
             thought2 == h.objs[RefOf(h, c.role2)]
             hybrid_thought ==
                 [agent_role |-> "queen_coordinator",
                  content |-> thought1.content \cup thought2.content,
                  reasoning |-> thought1.reasoning \cup thought2.reasoning,
                  confidence |->
                      RDiv(RAdd(thought1.confidence, thought2.confidence),
                           Rat(2, 1)),
                  evidence |->
                      SetToSeq(Range(thought1.evidence) \cup Range(thought2.evidence))]
             new == Len(h.objs) + 1
         IN [objs |-> Append(h.objs, hybrid_thought),
             refs |-> [i \in DOMAIN h.refs |->
                         IF h.refs[i].key \in {c.role1, c.role2}
                         THEN [key |-> h.refs[i].key, ref |-> new]
                         ELSE h.refs[i]]]

\* one record of _resolve_methodological_conflict
ResolveMethodological(h, c) ==
    IF ~(HasKey(h, c.role1) /\ HasKey(h, c.role2)) THEN h
    ELSE LET thought1 == h.objs[RefOf(h, c.role1)]
             thought2 == h.objs[RefOf(h, c.role2)]
             hybrid_thought ==
                 [agent_role |-> "queen_coordinator",
                  content |-> {"integrated", "solution:", "+", "this", "hybrid",
                               "approach", "addresses", "multiple", "perspectives."}
                              \cup thought1.content \cup thought2.content,
                  reasoning |-> {"hybrid", "approach", "combining", "with", "this",
                                 "integrated", "methodology", "leverages", "strengths",
                                 "of", "both", "approaches."}
                                \cup thought1.reasoning \cup thought2.reasoning,
                  confidence |->
                      RMul(RDiv(RAdd(thought1.confidence, thought2.confidence),
                                Rat(2, 1)), Pct(90)),
                  evidence |->
                      SetToSeq(Range(thought1.evidence) \cup Range(thought2.evidence))]
             new == Len(h.objs) + 1
         IN [objs |-> Append(h.objs, hybrid_thought),
             refs |-> [i \in DOMAIN h.refs |->
                         IF h.refs[i].key \in {c.role1, c.role2}
                         THEN [key |-> h.refs[i].key, ref |-> new]
                         ELSE h.refs[i]]]

\* one record of _resolve_strategic_divergence
ResolveStrategic(h, c) ==
    IF ~(HasKey(h, c.role1) /\ HasKey(h, c.role2)) THEN h
    ELSE LET r1 == RefOf(h, c.role1)
             r2 == RefOf(h, c.role2)
             balanced_reasoning ==
                 {"strategic", "balance:", "balanced", "with", "this", "approach",
                  "considers", "both", "perspectives", "for", "optimal", "outcome."}
                 \cup h.objs[r1].reasoning \cup h.objs[r2].reasoning
             balanced_content ==
                 {"strategic", "synthesis:", "integrated", "with", "provides",
                  "balanced", "approach", "considering", "multiple", "factors."}
                 \cup h.objs[r1].content \cup h.objs[r2].content
             h1 == [h EXCEPT !.objs[r1].reasoning = balanced_reasoning,
                             !.objs[r1].content = balanced_content]
             h2 == [h1 EXCEPT !.objs[r1].confidence = RMul(@, Pct(85))]
             h3 == [h2 EXCEPT !.objs[r2].reasoning = balanced_reasoning,
                              !.objs[r2].content = balanced_content]
         IN [h3 EXCEPT !.objs[r2].confidence = RMul(@, Pct(85))]

\* the if/elif chain of resolve_conflicts for one record of a type
ResolveOne(h, c) ==
    CASE c.type = "factual_disagreement" -> ResolveFactual(h, c)
      [] c.type = "priority_disagreement" -> ResolvePriority(h, c)
      [] c.type = "methodological_conflict" -> ResolveMethodological(h, c)
      [] c.type = "strategic_divergence" -> ResolveStrategic(h, c)
      [] OTHER -> h

RECURSIVE ResolveAll(_, _)
ResolveAll(h, conflict_list) ==
    IF conflict_list = <<>> THEN h
    ELSE ResolveAll(ResolveOne(h, Head(conflict_list)), Tail(conflict_list))

\* conflicts_by_type: the records grouped by type, the types in the order of
\* their first record
RECURSIVE TypesInOrder(_)
TypesInOrder(conflicts) ==
    IF conflicts = <<>> THEN <<>>
    ELSE LET rest == TypesInOrder(SubSeq(conflicts, 1, Len(conflicts) - 1))
             t == conflicts[Len(conflicts)].type
         IN IF t \in Range(rest) THEN rest ELSE Append(rest, t)

RECURSIVE GroupedByType(_, _)
GroupedByType(types, conflicts) ==
    IF types = <<>> THEN <<>>
    ELSE SelectSeq(conflicts, LAMBDA c : c.type = Head(types))
         \o GroupedByType(Tail(types), conflicts)

\* resolve_conflicts: the map it returns, and the caller's map as it leaves it
resolve_conflicts(agent_thoughts, conflicts) ==
    LET Maps(h) ==
            [resolved |-> [i \in DOMAIN h.refs |->
                             [key |-> h.refs[i].key, thought |-> h.objs[h.refs[i].ref]]],
             agent_thoughts |-> [i \in DOMAIN agent_thoughts |->
                             [key |-> agent_thoughts[i].key, thought |-> h.objs[i]]]]
    IN Maps(ResolveAll(HeapOf(agent_thoughts),
                       GroupedByType(TypesInOrder(conflicts), conflicts)))


\* ---------------------------------------------------- the other strategies
\* _collaborative_synthesis_consensus: its first statement calls
\* _identify_common_themes, which the class does not define
collaborative_synthesis_consensus(deliberation, agent_thoughts) ==
    Raised("AttributeError", deliberation, agent_thoughts)

\* _iterative_refinement_consensus: the first round calls
\* _create_refinement_proposals, which the class does not define
iterative_refinement_consensus(deliberation, agent_thoughts) ==
    Raised("AttributeError", deliberation, agent_thoughts)

\* _emergent_agreement_consensus: its first statement calls
\* _build_agreement_network, which the class does not define
emergent_agreement_consensus(deliberation, agent_thoughts) ==
    Raised("AttributeError", deliberation, agent_thoughts)

\* _conflict_resolution_consensus: with conflicts it resolves them and calls
\* _build_consensus_from_resolved_conflicts, which the class does not define;
\* without, it ends in collaborative synthesis
conflict_resolution_consensus(deliberation, agent_thoughts) ==
    LET Resolve(conflicts) ==
            IF conflicts # <<>>
            THEN Raised("AttributeError",
                        [deliberation EXCEPT !.conflict_log = conflicts],
                        resolve_conflicts(agent_thoughts, conflicts).agent_thoughts)
            ELSE collaborative_synthesis_consensus(
                     [deliberation EXCEPT !.conflict_log = conflicts], agent_thoughts)
    IN Resolve(detect_conflicts(agent_thoughts))

\* _hybrid_adaptive_consensus: after the landscape analysis and the optional
\* conflict resolution it compares the dict analysis['evidence_quality'] with
\* the float 0.6, where Python raises TypeError
hybrid_adaptive_consensus(deliberation, agent_thoughts) ==
    LET Adapt(consensus_analysis) ==
            IF ~consensus_analysis.ok
            THEN Raised(consensus_analysis.exc, deliberation, agent_thoughts)
            ELSE IF consensus_analysis.conflicts_detected > 0
            THEN conflict_resolution_consensus(deliberation, agent_thoughts)
            ELSE Raised("TypeError", deliberation, agent_thoughts)
    IN Adapt(analyze_consensus_landscape(deliberation.task, agent_thoughts))

\* self.consensus_strategies[strategy](deliberation, agent_thoughts)
consensus_func(strategy, deliberation, agent_thoughts) ==
    CASE strategy = "weighted_voting" ->
            weighted_voting_consensus(deliberation, agent_thoughts)
      [] strategy = "specialist_authority" ->
            specialist_authority_consensus(deliberation, agent_thoughts)
      [] strategy = "evidence_based" ->
            evidence_based_consensus(deliberation, agent_thoughts)
      [] strategy = "collaborative_synthesis" ->
            collaborative_synthesis_consensus(deliberation, agent_thoughts)
      [] strategy = "iterative_refinement" ->
            iterative_refinement_consensus(deliberation, agent_thoughts)
      [] strategy = "conflict_resolution" ->
            conflict_resolution_consensus(deliberation, agent_thoughts)
      [] strategy = "emergent_agreement" ->
            emergent_agreement_consensus(deliberation, agent_thoughts)
      [] strategy = "hybrid_adaptive" ->
            hybrid_adaptive_consensus(deliberation, agent_thoughts)

\* ------------------------------------------------ validation, amplification
\* the engine's agents: TenAgentAGISystem registers one per role
agents ==
    { "queen_coordinator", "code_architect", "security_specialist",
      "performance_optimizer", "ui_ux_designer", "integration_expert",
      "testing_quality", "documentation_tech_writer", "data_analytics",
      "innovation_strategist" }

\* _validate_consensus_quality: its first statement reads
\* deliberation.participating_agents, which is no field of the dataclass
validate_consensus_quality(consensus, deliberation) ==
    LET MeanOf(evidence_score, roles) ==
            IF roles = <<>> THEN Pct(50)
            ELSE RMean([i \in DOMAIN roles |-> evidence_score[roles[i]]])
        Overall(required, evidence_score) ==
            RAdd(RAdd(RMul(RDiv(Rat(Len(consensus.contributing_agents), 1), required),
                           Pct(30)),
                      RMul(consensus.confidence_score, Pct(30))),
                 RAdd(RMul(RSub(One, RDiv(Rat(Len(deliberation.conflict_log), 1),
                                          required)),
                           Pct(20)),
                      RMul(MeanOf(evidence_score, SetToSeq(DOMAIN evidence_score)),
                           Pct(20))))
    IN IF "participating_agents" \notin DOMAIN deliberation
       THEN [ok |-> FALSE, exc |-> "AttributeError", overall_score |-> Zero]
       ELSE IF consensus.contributing_agents # <<>>
       THEN \* np.mean over the contributors' position texts
            [ok |-> FALSE, exc |-> "TypeError", overall_score |-> Zero]
       ELSE [ok |-> TRUE, exc |-> None,
             overall_score |->
                 Overall(Rat(Len(deliberation.participating_agents), 1),
                         evaluate_evidence_quality(deliberation.evidence_registry))]

\* _amplify_consensus_quality without the min(1.0, ...) around the boosted
\* confidence
amplify_consensus_quality_unclamped(consensus, deliberation) ==
    LET specialist_validations ==
            SelectSeq(consensus.contributing_agents,
                      LAMBDA role : role \in agents
                                    /\ role \in DOMAIN deliberation.agent_positions)
    IN IF specialist_validations # <<>>
       THEN Insight(<<"amplified">> \o consensus.insight_id,
                    consensus.contributing_agents, consensus.synthesized_content,
                    consensus.consensus_level,
                    RMul(consensus.confidence_score,
                         RAdd(One, RMul(RMean([i \in DOMAIN specialist_validations |->
                                                  Pct(80)]),
                                        Pct(10)))),
                    <<>>, consensus.synthesis_method \o <<"amplified">>)
       ELSE consensus

\* _amplify_consensus_quality: one validation of confidence 0.8 for each
\* contributor that has an agent and a recorded position
amplify_consensus_quality(consensus, deliberation) ==
    LET specialist_validations ==
            SelectSeq(consensus.contributing_agents,
                      LAMBDA role : role \in agents
                                    /\ role \in DOMAIN deliberation.agent_positions)
    IN IF specialist_validations # <<>>
       THEN LET validation_confidence ==
                    RMean([i \in DOMAIN specialist_validations |-> Pct(80)])
                amplified_confidence ==
                    RMin(One, RMul(consensus.confidence_score,
                                   RAdd(One, RMul(validation_confidence, Pct(10)))))
            IN Insight(<<"amplified">> \o consensus.insight_id,
                       consensus.contributing_agents, consensus.synthesized_content,
                       consensus.consensus_level, amplified_confidence, <<>>,
                       consensus.synthesis_method \o <<"amplified">>)
       ELSE consensus


\* ------------------------------------------------------------------- state
Calls == 1..NumCalls

VARIABLES
    pc,                    \* where each reach_consensus call is
    task,                  \* its task argument
    agent_thoughts,        \* its agent_thoughts argument, the caller's dict
    strategy_arg,          \* its strategy argument as the caller passed it
    strategy,              \* the same parameter, reassigned at line 229
    voting_method,         \* the local of line 230
    outcome,               \* how the call ended: the insight or the exception
    elapsed,               \* seconds since the call's start_time
    active_deliberations,  \* the engine's dict, as the set of its keys
    consensus_history,     \* the engine's list of deliberations
    performance_history,   \* the learner's list of patterns
    consensus_lock,        \* the engine's asyncio.Lock: the call holding it
    u_pc,                  \* a direct use of the components: where it is
    u_task,                \* the task it was prepared with
    u_thoughts,            \* the position map it was prepared with (the caller's)
    u_map,                 \* the map the next component is given
    u_delib,               \* the deliberation the components are given
    u_conflicts,           \* the records detect_conflicts returned
    u_op,                  \* the component invoked last
    u_out,                 \* what it left
    u_landscape,           \* what the landscape analysis returned
    u_scores,              \* what the evidence evaluator was given and returned
    u_quality,             \* what quality validation returned
    g_pc,                  \* position generation: where it is
    g_required,            \* the task's required_agents
    g_tasks,               \* the state of each participant's processing task
    g_thoughts,            \* the position map collected so far
    w_cursor,              \* the survey of weighted voting: the next map's number
    w_seen,                \* the consensus levels it has produced
    w_last                 \* the map it ran on last, its weights and its level

vars ==
    << pc, task, agent_thoughts, strategy_arg, strategy, voting_method, outcome,
       elapsed, active_deliberations, consensus_history, performance_history,
       consensus_lock,
       u_pc, u_task, u_thoughts, u_map, u_delib, u_conflicts, u_op, u_out,
       u_landscape, u_scores, u_quality, g_pc, g_required, g_tasks, g_thoughts,
       w_cursor, w_seen, w_last >>

call_vars ==
    << pc, task, agent_thoughts, strategy_arg, strategy, voting_method, outcome,
       elapsed >>
engine_vars ==
    << active_deliberations, consensus_history, performance_history,
       consensus_lock >>
unit_vars ==
    << u_pc, u_task, u_thoughts, u_map, u_delib, u_conflicts, u_op, u_out,
       u_landscape >>
helper_vars == << u_scores, u_quality >>
generation_vars == << g_pc, g_required, g_tasks, g_thoughts >>
survey_vars == << w_cursor, w_seen, w_last >>

NoTask == [task_id |-> None, description |-> {}]
NoOutcome == [kind |-> None, exc |-> None, insight |-> NoInsight]
NoDelib == ConsensusDeliberation(
               ReachConsensusArgs(NoTask, <<>>, None, None) @@ [voting_record |-> <<>>]).val
NoOut == Raised(None, NoDelib, <<>>)
NoLandscape ==
    [ok |-> FALSE, exc |-> None, agreement_score |-> Zero, avg_confidence |-> Zero,
     conflicts_detected |-> 0, evidence_quality |-> <<>>,
     recommended_strategy |-> None, recommended_voting |-> None]
NoScores == [evidence_registry |-> <<>>, evidence_scores |-> <<>>]
NoQuality == [ok |-> FALSE, exc |-> None, overall_score |-> Zero]
NoSurvey == [agent_thoughts |-> <<>>, voting_weights |-> <<>>, consensus_level |-> None]

Init ==
    /\ pc = [c \in Calls |-> "idle"]
    /\ task = [c \in Calls |-> NoTask]
    /\ agent_thoughts = [c \in Calls |-> <<>>]
    /\ strategy_arg = [c \in Calls |-> None]
    /\ strategy = [c \in Calls |-> None]
    /\ voting_method = [c \in Calls |-> None]
    /\ outcome = [c \in Calls |-> NoOutcome]
    /\ elapsed = [c \in Calls |-> 0]
    /\ active_deliberations = {}
    /\ consensus_history = <<>>
    /\ performance_history = <<>>
    /\ consensus_lock = None
    /\ u_pc = "idle"
    /\ u_task = NoTask
    /\ u_thoughts = <<>>
    /\ u_map = <<>>
    /\ u_delib = NoDelib
    /\ u_conflicts = <<>>
    /\ u_op = None
    /\ u_out = NoOut
    /\ u_landscape = NoLandscape
    /\ u_scores = NoScores
    /\ u_quality = NoQuality
    /\ g_pc = "idle"
    /\ g_required = {}
    /\ g_tasks = <<>>
    /\ g_thoughts = <<>>
    /\ w_cursor = 0
    /\ w_seen = {}
    /\ w_last = NoSurvey


\* --------------------------------------------------------- reach_consensus
\* ConsensusLearning.learn_from_deliberation: building the pattern reads
\* deliberation.participating_agents, which is no field of the dataclass
learn_from_deliberation(deliberation, history) ==
    IF deliberation.final_consensus = NoInsight
    THEN [ok |-> TRUE, exc |-> None, performance_history |-> history]
    ELSE IF "participating_agents" \notin DOMAIN deliberation
    THEN [ok |-> FALSE, exc |-> "AttributeError", performance_history |-> history]
    ELSE [ok |-> TRUE, exc |-> None,
          performance_history |->
              Append(history, [strategy |-> deliberation.strategy,
                               voting_method |-> deliberation.voting_method])]

\* the try / except of reach_consensus (lines 247-280) on a deliberation
\* that was created: what the call returns, and what it leaves in the history,
\* the learner and the caller's dict. The steps are chained operators, each
\* taking the values the step before it computed.
\* lines 274-280: the except clause
TryExcept(run, history, learned) ==
    [insight |-> fallback_consensus(run.agent_thoughts, run.deliberation.task),
     consensus_history |-> history, performance_history |-> learned,
     agent_thoughts |-> run.agent_thoughts]

\* lines 267-272: the learner, then the return
TryLearn(run, recorded, learning, history, learned) ==
    IF learning.ok
    THEN [insight |-> recorded.final_consensus, consensus_history |-> history,
          performance_history |-> learning.performance_history,
          agent_thoughts |-> run.agent_thoughts]
    ELSE TryExcept(run, history, learned)

\* lines 261-266: the deliberation is finalised and appended to the history
TryRecord(run, recorded, history, learned) ==
    TryLearn(run, recorded, learn_from_deliberation(recorded, learned),
             Append(history, recorded), learned)

\* lines 255-259: amplification of a consensus scored under 0.8
TryAmplify(run, consensus_quality, history, learned) ==
    IF ~consensus_quality.ok
    THEN TryExcept(run, history, learned)
    ELSE TryRecord(run,
                   [run.deliberation EXCEPT
                       !.final_consensus =
                           IF RLt(consensus_quality.overall_score, Pct(80))
                           THEN amplify_consensus_quality(run.insight, run.deliberation)
                           ELSE run.insight,
                       !.deliberation_end = "set",
                       !.quality_metrics = "set"],
                   history, learned)

\* lines 252-253: validation of what the strategy returned
TryValidate(run, history, learned) ==
    IF ~run.ok
    THEN TryExcept(run, history, learned)
    ELSE TryAmplify(run, validate_consensus_quality(run.insight, run.deliberation),
                    history, learned)

\* lines 247-250: the strategy
TryDeliberation(deliberation, thoughts, history, learned) ==
    TryValidate(consensus_func(deliberation.strategy, deliberation, thoughts),
                history, learned)

InProgress(c) == pc[c] \in {"analyze", "create"}
Ended(c) == pc[c] \in {"returned", "raised"}

\* the task and the strategies reach_consensus is called with: no strategy,
\* the one the selector can pick, and the one qwen_agi_integration.py passes
CallTask == CHOOSE t \in Tasks : t.task_id = "t_secure"
CallStrategies == {None, "weighted_voting", "hybrid_adaptive"}

\* a caller awaits reach_consensus(task, agent_thoughts, strategy); the calls
\* of this specification follow one another, each taking the first index
Start(c) ==
    /\ pc[c] = "idle"
    /\ \A d \in Calls : pc[d] = "idle" /\ c <= d
    /\ u_pc = "idle"
    /\ g_pc = "idle"
    /\ \E m \in PositionMaps, s \in CallStrategies :
          /\ agent_thoughts' = [agent_thoughts EXCEPT ![c] = m]
          /\ strategy_arg' = [strategy_arg EXCEPT ![c] = s]
          /\ strategy' = [strategy EXCEPT ![c] = s]
    /\ task' = [task EXCEPT ![c] = CallTask]
    /\ pc' = [pc EXCEPT ![c] = "analyze"]
    /\ UNCHANGED << voting_method, outcome, elapsed, engine_vars, unit_vars, helper_vars,
                    generation_vars, survey_vars >>

\* lines 226-230: the landscape analysis and the choice of the strategy
Analyze(c) ==
    /\ pc[c] = "analyze"
    /\ LET Choose(consensus_analysis) ==
              IF consensus_analysis.ok
              THEN /\ strategy' = [strategy EXCEPT ![c] =
                          IF @ # None THEN @
                          ELSE consensus_analysis.recommended_strategy]
                   /\ voting_method' = [voting_method EXCEPT ![c] =
                          consensus_analysis.recommended_voting]
                   /\ pc' = [pc EXCEPT ![c] = "create"]
                   /\ UNCHANGED outcome
              ELSE /\ outcome' = [outcome EXCEPT ![c] =
                          [kind |-> "raised", exc |-> consensus_analysis.exc,
                           insight |-> NoInsight]]
                   /\ pc' = [pc EXCEPT ![c] = "raised"]
                   /\ UNCHANGED << strategy, voting_method >>
       IN Choose(analyze_consensus_landscape(task[c], agent_thoughts[c]))
    /\ UNCHANGED << task, agent_thoughts, strategy_arg, elapsed, engine_vars,
                    unit_vars, helper_vars,
                    generation_vars, survey_vars >>

\* reach_consensus registering the deliberation's id before the constructor
\* call raises, with nothing to remove it
Deliberate_leaking(c) ==
    /\ pc[c] = "create"
    /\ outcome' = [outcome EXCEPT ![c] =
           [kind |-> "raised", exc |-> "TypeError", insight |-> NoInsight]]
    /\ pc' = [pc EXCEPT ![c] = "raised"]
    /\ active_deliberations' =
           active_deliberations \cup {<<"deliberation", task[c].task_id>>}
    /\ UNCHANGED << task, agent_thoughts, strategy_arg, strategy, voting_method,
                    elapsed, consensus_history, performance_history,
                    consensus_lock, unit_vars, helper_vars, generation_vars, survey_vars >>

\* lines 232-285: the deliberation is constructed, registered, run and removed
\* from the active set. The constructor call raises before any of it.
Deliberate(c) ==
    /\ pc[c] = "create"
    /\ LET Return(deliberation_id, done) ==
              /\ outcome' = [outcome EXCEPT ![c] =
                     [kind |-> "returned", exc |-> None, insight |-> done.insight]]
              /\ pc' = [pc EXCEPT ![c] = "returned"]
              /\ agent_thoughts' = [agent_thoughts EXCEPT ![c] = done.agent_thoughts]
              /\ consensus_history' = done.consensus_history
              /\ performance_history' = done.performance_history
              /\ UNCHANGED consensus_lock
              /\ active_deliberations' = active_deliberations \ {deliberation_id}
           Run(created) ==
              IF created.ok
              THEN Return(created.val.deliberation_id,
                          TryDeliberation(created.val, agent_thoughts[c],
                                          consensus_history, performance_history))
              ELSE /\ outcome' = [outcome EXCEPT ![c] =
                          [kind |-> "raised", exc |-> created.exc,
                           insight |-> NoInsight]]
                   /\ pc' = [pc EXCEPT ![c] = "raised"]
                   /\ UNCHANGED << agent_thoughts, engine_vars >>
       IN Run(ConsensusDeliberation(
                  ReachConsensusArgs(task[c], agent_thoughts[c],
                                     strategy[c], voting_method[c])))
    /\ UNCHANGED << task, strategy_arg, strategy, voting_method, elapsed, unit_vars, helper_vars,
                    generation_vars, survey_vars >>

\* time passes while a call is in progress; nothing in the engine reads
\* deliberation_timeout
Tick ==
    /\ \E c \in Calls : InProgress(c)
    /\ \A c \in Calls : InProgress(c) => elapsed[c] < MaxElapsed
    /\ elapsed' = [c \in Calls |->
                     IF InProgress(c) THEN elapsed[c] + TickSeconds ELSE elapsed[c]]
    /\ UNCHANGED << pc, task, agent_thoughts, strategy_arg, strategy, voting_method,
                    outcome, engine_vars, unit_vars, helper_vars,
                    generation_vars, survey_vars >>

\* the caller is done with the call's result
Forget(c) ==
    /\ Ended(c)
    /\ pc' = [pc EXCEPT ![c] = "idle"]
    /\ task' = [task EXCEPT ![c] = NoTask]
    /\ agent_thoughts' = [agent_thoughts EXCEPT ![c] = <<>>]
    /\ strategy_arg' = [strategy_arg EXCEPT ![c] = None]
    /\ strategy' = [strategy EXCEPT ![c] = None]
    /\ voting_method' = [voting_method EXCEPT ![c] = None]
    /\ outcome' = [outcome EXCEPT ![c] = NoOutcome]
    /\ elapsed' = [elapsed EXCEPT ![c] = 0]
    /\ UNCHANGED << engine_vars, unit_vars, helper_vars,
                    generation_vars, survey_vars >>


\* ------------------------------------------- the components, used directly
\* The model's numbers are fractions of machine integers: a component is
\* invoked on confidences whose denominators are within MaxDenominator.
Representable(x) == x.d <= MaxDenominator

\* A caller of the engine's methods prepares a task, a position map and a
\* deliberation built like reach_consensus builds it (and with the
\* voting_record the dataclass requires), and invokes one component on them.
Prepare ==
    /\ u_pc = "idle"
    /\ \A c \in Calls : pc[c] = "idle"
    /\ g_pc = "idle"
    /\ \E t \in Tasks, m \in PositionMaps :
          /\ u_task' = t
          /\ u_thoughts' = m
          /\ u_map' = m
          /\ u_delib' = ConsensusDeliberation(
                            ReachConsensusArgs(t, m, None, None)
                                @@ [voting_record |-> <<>>]).val
    /\ u_pc' = "ready"
    /\ UNCHANGED << call_vars, engine_vars, helper_vars, generation_vars, survey_vars, u_conflicts, u_op, u_out, u_landscape >>

\* conflict_detector.detect_conflicts(agent_thoughts)
InvokeDetect ==
    /\ u_pc = "ready"
    /\ u_conflicts' = detect_conflicts(u_map)
    /\ u_op' = "detect_conflicts"
    /\ u_pc' = "detected"
    /\ UNCHANGED << call_vars, engine_vars, helper_vars, generation_vars, survey_vars, u_task, u_thoughts, u_map, u_delib, u_out,
                    u_landscape >>

\* conflict_resolver.resolve_conflicts(agent_thoughts, conflicts)
InvokeResolve ==
    /\ u_pc = "detected"
    /\ u_conflicts # <<>>
    /\ LET Keep(r) == /\ u_map' = r.resolved
                      /\ u_thoughts' = r.agent_thoughts
       IN Keep(resolve_conflicts(u_map, u_conflicts))
    /\ u_op' = "resolve_conflicts"
    /\ u_pc' = "resolved"
    /\ UNCHANGED << call_vars, engine_vars, helper_vars, generation_vars, survey_vars, u_task, u_delib, u_conflicts, u_out,
                    u_landscape >>

\* evidence_evaluator.evaluate_evidence_quality(evidence_registry) on the
\* registry of one participant
InvokeEvaluate ==
    /\ u_pc = "idle"
    /\ \A c \in Calls : pc[c] = "idle"
    /\ g_pc = "idle"
    /\ \E role \in Roles, evidence_list \in EvidenceLists :
          LET evidence_registry == [r \in {role} |-> evidence_list]
          IN u_scores' = [evidence_registry |-> evidence_registry,
                          evidence_scores |->
                              evaluate_evidence_quality(evidence_registry)]
    /\ u_op' = "evaluate_evidence_quality"
    /\ u_pc' = "evaluated"
    /\ UNCHANGED << call_vars, engine_vars, generation_vars, survey_vars, u_quality, u_task,
                    u_thoughts, u_map, u_delib, u_conflicts, u_out, u_landscape >>

\* _analyze_consensus_landscape(task, agent_thoughts)
InvokeLandscape ==
    /\ u_pc = "ready"
    /\ u_landscape' = analyze_consensus_landscape(u_task, u_map)
    /\ u_op' = "analyze_consensus_landscape"
    /\ u_pc' = "analyzed"
    /\ UNCHANGED << call_vars, engine_vars, helper_vars, generation_vars, survey_vars, u_task, u_thoughts, u_map, u_delib,
                    u_conflicts, u_out >>

\* one of the eight strategies, on the prepared map or on the resolved one
\* (conflict resolution, which resolves itself, on the prepared one)
InvokeStrategy ==
    /\ u_pc \in {"ready", "resolved"}
    /\ \A i \in DOMAIN u_map : Representable(u_map[i].thought.confidence)
    /\ \E s \in ConsensusStrategy :
          /\ s = "conflict_resolution" => u_pc = "ready"
          /\ LET Keep(out) ==
                    /\ u_out' = out
                    /\ u_delib' = out.deliberation
                    /\ u_map' = out.agent_thoughts
                    /\ u_thoughts' =
                           IF u_pc = "ready" THEN out.agent_thoughts ELSE u_thoughts
             IN Keep(consensus_func(s, u_delib, u_map))
          /\ u_op' = s
    /\ u_pc' = "done"
    /\ UNCHANGED << call_vars, engine_vars, helper_vars, generation_vars, survey_vars, u_task, u_conflicts, u_landscape >>

\* _fallback_consensus(agent_thoughts, task)
InvokeFallback ==
    /\ u_pc \in {"ready", "resolved"}
    /\ \A i \in DOMAIN u_map : Representable(u_map[i].thought.confidence)
    /\ u_out' = Returned(fallback_consensus(u_map, u_task), u_delib, u_map, <<>>)
    /\ u_op' = "fallback_consensus"
    /\ u_pc' = "done"
    /\ UNCHANGED << call_vars, engine_vars, helper_vars, generation_vars, survey_vars, u_task, u_thoughts, u_map, u_delib,
                    u_conflicts, u_landscape >>

\* _amplify_consensus_quality(consensus, deliberation) on the insight a
\* component returned, and once more on the amplified insight
InvokeAmplify ==
    /\ u_pc \in {"done", "amplified"}
    /\ u_out.ok
    /\ Representable(u_out.insight.confidence_score)
    /\ u_out' = [u_out EXCEPT !.insight = amplify_consensus_quality(@, u_delib)]
    /\ u_pc' = IF u_pc = "done" THEN "amplified" ELSE "amplified_again"
    /\ UNCHANGED << call_vars, engine_vars, helper_vars, generation_vars, survey_vars, u_task, u_thoughts, u_map, u_delib,
                    u_conflicts, u_op, u_landscape >>

\* lines 252-257 of reach_consensus on the insight a strategy returned:
\* _validate_consensus_quality(consensus_result, deliberation), then the
\* amplification of a consensus scored under 0.8
InvokeValidate ==
    /\ u_pc = "done"
    /\ u_op \in ConsensusStrategy
    /\ u_out.ok
    /\ LET Keep(consensus_quality) ==
              /\ u_quality' = consensus_quality
              /\ u_out' =
                     IF ~consensus_quality.ok
                     THEN Raised(consensus_quality.exc, u_delib, u_map)
                     ELSE IF RLt(consensus_quality.overall_score, Pct(80))
                     THEN [u_out EXCEPT
                              !.insight = amplify_consensus_quality(@, u_delib)]
                     ELSE u_out
       IN Keep(validate_consensus_quality(u_out.insight, u_delib))
    /\ u_pc' = "validated"
    /\ UNCHANGED << call_vars, engine_vars, generation_vars, survey_vars, u_scores, u_task,
                    u_thoughts, u_map, u_delib, u_conflicts, u_op, u_landscape >>

\* ------------------------------------------------------ position generation
\* TenAgentAGISystem._initialize_agents: the registry, in insertion order
agent_configs ==
    << "queen_coordinator", "code_architect", "security_specialist",
       "performance_optimizer", "ui_ux_designer", "integration_expert",
       "testing_quality", "documentation_tech_writer", "data_analytics",
       "innovation_strategist" >>

\* the position each agent's process_task returns
process_task(role) ==
    [agent_id |-> <<"agent", role>>, agent_role |-> role,
     content |->
         CASE role = "queen_coordinator" ->
                  {"coordinating", "10-agent", "collaboration", "for", "optimal",
                   "task", "execution"}
           [] role = "security_specialist" ->
                  {"analyzing", "security", "implications", "and",
                   "vulnerability", "prevention"}
           [] role = "documentation_tech_writer" ->
                  {"creating", "comprehensive", "documentation", "and",
                   "technical", "guides"}
           [] role = "data_analytics" ->
                  {"analyzing", "data", "patterns", "and", "providing",
                   "actionable", "insights"}
           [] OTHER -> {},
     confidence |->
         CASE role = "queen_coordinator" -> Pct(95)
           [] role = "security_specialist" -> Pct(90)
           [] role = "documentation_tech_writer" -> Pct(80)
           [] role = "data_analytics" -> Pct(85)
           [] OTHER -> Zero,
     evidence |-> <<>>]

\* the except clause of _parallel_agent_processing with the confidence of an
\* ordinary position
fallback_thought_confident(role) ==
    [agent_id |-> <<"fallback", role>>, agent_role |-> role,
     content |-> {"agent", "encountered", "error"},
     confidence |-> Pct(80), evidence |-> <<>>]

\* the except clause of _parallel_agent_processing: the thought recorded for a
\* participant whose task raised
fallback_thought(role) ==
    [agent_id |-> <<"fallback", role>>, agent_role |-> role,
     content |-> {"agent", "encountered", "error"},
     confidence |-> Pct(30), evidence |-> <<>>]

\* _parallel_agent_processing(task), lines 283-290: one asyncio task for each
\* registered agent whose role is in task.required_agents
Generate ==
    /\ g_pc = "idle"
    /\ u_pc = "idle"
    /\ \A c \in Calls : pc[c] = "idle"
    /\ \E required_agents \in SUBSET Roles :
          /\ g_required' = required_agents
          /\ g_tasks' =
                 LET processing_tasks ==
                         SelectSeq(agent_configs,
                                   LAMBDA role : role \in required_agents)
                 IN [i \in DOMAIN processing_tasks |->
                        [role |-> processing_tasks[i], state |-> "created",
                         active_tasks |-> {}]]
    /\ g_thoughts' = <<>>
    /\ g_pc' = "awaiting"
    /\ UNCHANGED << call_vars, engine_vars, unit_vars, helper_vars, survey_vars >>

\* _process_single_agent, line 321 and the call of line 322: the task is
\* added to the agent's active_tasks and process_task is awaited
ProcessSingleAgent(role) ==
    /\ g_pc = "awaiting"
    /\ \E i \in DOMAIN g_tasks :
          /\ g_tasks[i].role = role
          /\ g_tasks[i].state = "created"
          /\ g_tasks' = [g_tasks EXCEPT ![i].state = "processing",
                                        ![i].active_tasks = {"task_id"}]
    /\ UNCHANGED << call_vars, engine_vars, unit_vars, helper_vars, survey_vars, g_pc,
                    g_required, g_thoughts >>

\* _process_single_agent, lines 322-328: process_task returns a thought or
\* raises; either way the task leaves active_tasks
ProcessTaskEnds(role) ==
    /\ g_pc = "awaiting"
    /\ \E i \in DOMAIN g_tasks, result \in {"returned", "raised"} :
          /\ g_tasks[i].role = role
          /\ g_tasks[i].state = "processing"
          /\ g_tasks' = [g_tasks EXCEPT ![i].state = result,
                                        ![i].active_tasks = {}]
    /\ UNCHANGED << call_vars, engine_vars, unit_vars, helper_vars, survey_vars, g_pc,
                    g_required, g_thoughts >>

\* _parallel_agent_processing, lines 296-312: the tasks are awaited in the
\* order they were created
Collect ==
    /\ g_pc = "awaiting"
    /\ Len(g_thoughts) < Len(g_tasks)
    /\ LET processing_task == g_tasks[Len(g_thoughts) + 1]
           role == processing_task.role
       IN /\ processing_task.state \in {"returned", "raised"}
          /\ g_thoughts' =
                 SetItem(g_thoughts, role,
                         IF processing_task.state = "returned"
                         THEN process_task(role)
                         ELSE fallback_thought(role))
    /\ UNCHANGED << call_vars, engine_vars, unit_vars, helper_vars, survey_vars, g_pc,
                    g_required, g_tasks >>

\* _parallel_agent_processing, lines 314-316: the map is returned
ReturnThoughts ==
    /\ g_pc = "awaiting"
    /\ Len(g_thoughts) = Len(g_tasks)
    /\ g_pc' = "returned"
    /\ UNCHANGED << call_vars, engine_vars, unit_vars, helper_vars, survey_vars,
                    g_required, g_tasks, g_thoughts >>

\* the caller is done with the map
Discard ==
    /\ g_pc = "returned"
    /\ g_pc' = "idle"
    /\ g_required' = {}
    /\ g_tasks' = <<>>
    /\ g_thoughts' = <<>>
    /\ UNCHANGED << call_vars, engine_vars, unit_vars, helper_vars, survey_vars >>

Release ==
    /\ u_pc # "idle"
    /\ u_pc' = "idle"
    /\ u_task' = NoTask
    /\ u_thoughts' = <<>>
    /\ u_map' = <<>>
    /\ u_delib' = NoDelib
    /\ u_conflicts' = <<>>
    /\ u_op' = None
    /\ u_out' = NoOut
    /\ u_landscape' = NoLandscape
    /\ u_scores' = NoScores
    /\ u_quality' = NoQuality
    /\ UNCHANGED << call_vars, engine_vars, generation_vars, survey_vars >>

Next ==
    \/ \E c \in Calls : Start(c)
    \/ \E c \in Calls : Analyze(c)
    \/ \E c \in Calls : Deliberate(c)
    \/ Tick
    \/ \E c \in Calls : Forget(c)
    \/ Prepare
    \/ InvokeDetect
    \/ InvokeResolve
    \/ InvokeLandscape
    \/ InvokeEvaluate
    \/ InvokeStrategy
    \/ InvokeFallback
    \/ InvokeAmplify
    \/ InvokeValidate
    \/ Release
    \/ Generate
    \/ \E role \in Roles : ProcessSingleAgent(role)
    \/ \E role \in Roles : ProcessTaskEnds(role)
    \/ Collect
    \/ ReturnThoughts
    \/ Discard

Spec == Init /\ [][Next]_vars

\* ------------------------------------------------- concurrent deliberations
\* Callers that await reach_consensus on one engine at the same time: a call
\* starts whatever the other calls are doing. Every participant of these
\* calls holds the first position of the pool.
ConcurrentMaps ==
    { m \in PositionMaps :
        \A i \in DOMAIN m : m[i].thought = Thought(m[i].key, PositionPool[1]) }

StartConcurrent(c) ==
    /\ pc[c] = "idle"
    /\ u_pc = "idle"
    /\ g_pc = "idle"
    /\ \E m \in ConcurrentMaps, s \in CallStrategies :
          /\ agent_thoughts' = [agent_thoughts EXCEPT ![c] = m]
          /\ strategy_arg' = [strategy_arg EXCEPT ![c] = s]
          /\ strategy' = [strategy EXCEPT ![c] = s]
    /\ task' = [task EXCEPT ![c] = CallTask]
    /\ pc' = [pc EXCEPT ![c] = "analyze"]
    /\ UNCHANGED << voting_method, outcome, elapsed, engine_vars, unit_vars,
                    helper_vars, generation_vars, survey_vars >>

NextConcurrent ==
    \/ \E c \in Calls : StartConcurrent(c)
    \/ \E c \in Calls : Analyze(c)
    \/ \E c \in Calls : Deliberate(c)
    \/ Tick
    \/ \E c \in Calls : Forget(c)

SpecConcurrent == Init /\ [][NextConcurrent]_vars

\* ------------------------------------------- the resolver, used directly
\* ConflictResolver.resolve_conflicts called with conflict records of the
\* caller's making: no record, one record of any type between any two
\* roles (in the map or not), or the records the detector finds.
ConflictType ==
    { "factual_disagreement", "methodological_conflict", "priority_disagreement",
      "resource_allocation", "strategic_divergence", "expertise_claim",
      "value_conflict" }

ConflictRecords ==
    { [type |-> t, role1 |-> r1, role2 |-> r2, description |-> "given"] :
          t \in ConflictType, r1 \in Roles, r2 \in Roles } \
    { [type |-> t, role1 |-> r, role2 |-> r, description |-> "given"] :
          t \in ConflictType, r \in Roles }

ConflictLists(m) ==
    {<<>>, detect_conflicts(m)} \cup { <<c>> : c \in ConflictRecords }

PrepareResolver ==
    /\ u_pc = "idle"
    /\ \E m \in PositionMaps :
          /\ u_thoughts' = m
          /\ u_map' = m
          /\ u_delib' = ConsensusDeliberation(
                            ReachConsensusArgs(CallTask, m, None, None)
                                @@ [voting_record |-> <<>>]).val
    /\ u_task' = CallTask
    /\ u_pc' = "ready"
    /\ UNCHANGED << call_vars, engine_vars, helper_vars, generation_vars, survey_vars,
                    u_conflicts, u_op, u_out, u_landscape >>

InvokeResolveRecords ==
    /\ u_pc = "ready"
    /\ \E conflicts \in ConflictLists(u_map) :
          /\ u_conflicts' = conflicts
          /\ LET Keep(r) == /\ u_map' = r.resolved
                            /\ u_thoughts' = r.agent_thoughts
             IN Keep(resolve_conflicts(u_map, conflicts))
    /\ u_op' = "resolve_conflicts"
    /\ u_pc' = "resolved"
    /\ UNCHANGED << call_vars, engine_vars, helper_vars, generation_vars, survey_vars, u_task,
                    u_delib, u_out, u_landscape >>

NextResolver ==
    \/ PrepareResolver
    \/ InvokeResolveRecords
    \/ Release

SpecResolver == Init /\ [][NextResolver]_vars

\* ------------------------------------------- weighted voting, surveyed
\* _weighted_voting_consensus run on every position map in turn. The maps are
\* numbered: the digit of a role, to the base Len(PositionPool) + 1, is 0 for
\* a role absent from the map and else the number of its position in the pool.
MapBase == Len(PositionPool) + 1

RECURSIVE Power(_, _)
Power(b, e) == IF e = 0 THEN 1 ELSE b * Power(b, e - 1)

NumMaps == Power(MapBase, NumRoles)

Digit(n, r) == (n \div Power(MapBase, r - 1)) % MapBase

MapAt(n) ==
    LET present == SelectSeq([r \in 1..NumRoles |-> r], LAMBDA r : Digit(n, r) > 0)
    IN [i \in DOMAIN present |->
          [key |-> RoleOrder[present[i]],
           thought |-> Thought(RoleOrder[present[i]],
                               PositionPool[Digit(n, present[i])])]]

SurveyNext ==
    /\ w_cursor < NumMaps
    /\ LET agent_thoughts_n == MapAt(w_cursor)
           Keep(out) ==
               /\ w_last' = [agent_thoughts |-> agent_thoughts_n,
                             voting_weights |-> out.voting_weights,
                             consensus_level |-> out.insight.consensus_level]
               /\ w_seen' = IF agent_thoughts_n = <<>> THEN w_seen
                            ELSE w_seen \cup {out.insight.consensus_level}
       IN Keep(weighted_voting_consensus(
                   ConsensusDeliberation(
                       ReachConsensusArgs(CallTask, agent_thoughts_n, None, None)
                           @@ [voting_record |-> <<>>]).val,
                   agent_thoughts_n))
    /\ w_cursor' = w_cursor + 1
    /\ UNCHANGED << call_vars, engine_vars, unit_vars, helper_vars,
                    generation_vars >>

NextSurvey == SurveyNext

SpecSurvey == Init /\ [][NextSurvey]_vars

\* ------------------------------------------------------------------ claims
\* C1: no exception propagates past reach_consensus: for every position map and
\* every strategy, a call that has ended has returned an insight.
C1_NoExceptionPropagates ==
    \A c \in Calls : Ended(c) => outcome[c].kind = "returned"

\* C2: every call of reach_consensus that has ended has left its deliberation
\* in the history, with the end timestamp set.
C2_EveryDeliberationRecorded ==
    \A c \in Calls :
        Ended(c) =>
            \E i \in DOMAIN consensus_history :
                /\ consensus_history[i].deliberation_id
                       = <<"deliberation", task[c].task_id>>
                /\ consensus_history[i].deliberation_end = "set"

\* C3: a deliberation is bounded by the timeout: once more than
\* deliberation_timeout seconds have passed since the call's start, the call
\* has been abandoned and has returned the fallback consensus.
C3_TimeoutReturnsFallback ==
    \A c \in Calls :
        elapsed[c] > deliberation_timeout =>
            /\ pc[c] = "returned"
            /\ outcome[c].insight.synthesis_method
                   \in { <<"fallback_consensus">>, <<"ultimate_fallback">>,
                         <<"emergency_fallback">> }

\* C4: the fallback consensus is a three-step chain. With a position of
\* confidence over 0.5 the contributors are exactly the positions over 0.5 and
\* the confidence is their mean; else, with a non-empty map, there is exactly
\* one contributor and the confidence is half of that position's confidence;
\* else there is no contributor and the confidence is 0.1.
C4_FallbackChain ==
    (u_pc = "done" /\ u_op = "fallback_consensus") =>
        LET insight == u_out.insight
            high == SelectSeq(u_map, LAMBDA e : RGt(e.thought.confidence, Pct(50)))
        IN IF high # <<>>
           THEN /\ insight.contributing_agents = KeyList(high)
                /\ insight.confidence_score = RMean(Confidences(high))
           ELSE IF u_map # <<>>
           THEN /\ Len(insight.contributing_agents) = 1
                /\ \E i \in DOMAIN u_map :
                      /\ insight.contributing_agents[1] = u_map[i].thought.agent_role
                      /\ insight.confidence_score
                             = RDiv(u_map[i].thought.confidence, Rat(2, 1))
           ELSE /\ insight.contributing_agents = <<>>
                /\ insight.confidence_score = Pct(10)

\* the fallback ran on a non-empty map without a position over 0.5
C4_Witness ==
    /\ u_pc = "done"
    /\ u_op = "fallback_consensus"
    /\ u_map # <<>>
    /\ u_out.insight.synthesis_method = <<"ultimate_fallback">>

\* C5: a reach_consensus call with an empty position map returns the fallback
\* consensus with no contributing agent and a confidence of at most 0.1,
\* whichever strategy is requested or selected.
C5_EmptyMapReturnsFallback ==
    \A c \in Calls :
        (Ended(c) /\ agent_thoughts[c] = <<>>) =>
            /\ outcome[c].kind = "returned"
            /\ outcome[c].insight.contributing_agents = <<>>
            /\ RLe(outcome[c].insight.confidence_score, Pct(10))

\* C6: for every strategy and for the fallback, every participant listed in the
\* returned insight's contributing_agents is a key of the position map that
\* was passed in.
C6_ContributorsAreKeys ==
    (u_pc = "done" /\ u_out.ok) =>
        Range(u_out.insight.contributing_agents) \subseteq Keys(u_map)

\* C7: with input confidences in [0,1], the confidence_score of an insight is
\* in [0,1] after every strategy, after the fallback and after amplification,
\* and every position's confidence is in [0,1] after every resolver
\* transformation.
C7_ConfidenceInUnit ==
    /\ u_out.ok => InUnit(u_out.insight.confidence_score)
    /\ \A i \in DOMAIN u_map : InUnit(u_map[i].thought.confidence)
    /\ \A i \in DOMAIN u_thoughts : InUnit(u_thoughts[i].thought.confidence)
    /\ \A c \in Calls :
          /\ outcome[c].kind = "returned" =>
                 InUnit(outcome[c].insight.confidence_score)
          /\ \A i \in DOMAIN agent_thoughts[c] :
                 InUnit(agent_thoughts[c][i].thought.confidence)

\* the resolver transformed the positions, a strategy returned an insight on
\* them and the amplifier raised its confidence
C7_Witness ==
    /\ u_pc = "amplified"
    /\ u_out.ok
    /\ u_conflicts # <<>>
    /\ u_out.insight.synthesis_method = <<"weighted_voting", "amplified">>
    /\ RLt(Zero, u_out.insight.confidence_score)
    /\ RLt(u_out.insight.confidence_score, One)

\* C8: the landscape analysis completes for every position map and recommends
\* the strategy of the first matching rule, in this order: agreement over 0.8
\* and no conflict -> weighted voting; mean evidence quality over 0.7 ->
\* evidence-based; more than 3 conflicts -> conflict resolution; mean
\* confidence under 0.6 -> iterative refinement; otherwise hybrid adaptive.
C8_LandscapeFirstMatch ==
    u_pc = "analyzed" =>
        /\ u_landscape.ok
        /\ u_landscape.recommended_strategy =
             LET quality == u_landscape.evidence_quality
                 roles == SetToSeq(DOMAIN quality)
                 mean_quality == np_mean([i \in DOMAIN roles |-> quality[roles[i]]])
             IN IF /\ RGt(u_landscape.agreement_score, Pct(80))
                   /\ u_landscape.conflicts_detected = 0
                THEN "weighted_voting"
                ELSE IF RGt(mean_quality, Pct(70)) THEN "evidence_based"
                ELSE IF u_landscape.conflicts_detected > 3 THEN "conflict_resolution"
                ELSE IF RLt(u_landscape.avg_confidence, Pct(60))
                THEN "iterative_refinement"
                ELSE "hybrid_adaptive"

\* C9: a reach_consensus call without a strategy, on three or more participants
\* whose contents agree (agreement over 0.8), with one and the same high
\* confidence and no conflict, selects weighted voting and returns an insight
\* whose consensus level is strong majority or above.
C9_AgreeingCallStrongMajority ==
    \A c \in Calls :
        (/\ Ended(c)
         /\ strategy_arg[c] = None
         /\ Len(agent_thoughts[c]) >= 3
         /\ RGt(calculate_agreement_score(agent_thoughts[c]), Pct(80))
         /\ detect_conflicts(agent_thoughts[c]) = <<>>
         /\ \A i \in DOMAIN agent_thoughts[c] :
               agent_thoughts[c][i].thought.confidence = Pct(95))
        => /\ strategy[c] = "weighted_voting"
           /\ outcome[c].kind = "returned"
           /\ LevelRank(outcome[c].insight.consensus_level)
                  >= LevelRank("majority_strong")

\* C10: in weighted voting, for every non-empty position map, each
\* participant's weight is 0.4 x role authority + 0.3 x evidence score +
\* 0.3 x confidence divided by the sum of these over the participants, so that
\* the weights sum to 1.
C10_WeightsSumToOne ==
    (u_pc = "done" /\ u_op = "weighted_voting" /\ u_map # <<>>) =>
        LET evidence_scores == evaluate_evidence_quality(u_delib.evidence_registry)
            W(i) == RAdd(RAdd(RMul(Pct(40),
                                   Pct(DictGet(specialist_weights, u_map[i].key, 50))),
                              RMul(Pct(30),
                                   DictGet(evidence_scores, u_map[i].key, Pct(50)))),
                         RMul(Pct(30), u_map[i].thought.confidence))
            total == RSum([i \in DOMAIN u_map |-> W(i)])
        IN /\ DOMAIN u_out.voting_weights = DOMAIN u_map
           /\ \A i \in DOMAIN u_map : u_out.voting_weights[i] = RDiv(W(i), total)
           /\ RSum(u_out.voting_weights) = One

\* weighted voting ran on several participants of different weight
C10_Witness ==
    /\ u_pc = "done"
    /\ u_op = "weighted_voting"
    /\ Len(u_map) >= 2
    /\ \E i, j \in DOMAIN u_map : RLt(u_out.voting_weights[i], u_out.voting_weights[j])

\* C11: conflict detection is pair-order-symmetric: for every pair of entries
\* of the map the detector was run on, the (type, description) pairs it
\* recorded for the pair are those the analysis reports for the two positions
\* taken in the other order.
C11_DetectionSymmetric ==
    (u_pc = "detected") =>
        \A i, j \in DOMAIN u_map : i < j =>
            { <<u_conflicts[k].type, u_conflicts[k].description>> :
                k \in { n \in DOMAIN u_conflicts :
                          /\ u_conflicts[n].role1 = u_map[i].key
                          /\ u_conflicts[n].role2 = u_map[j].key } }
              = Range(analyze_conflict_between_agents(u_map[j].thought,
                                                      u_map[i].thought))

\* the detector has recorded conflicts of all four categories
C11_Witness ==
    /\ u_pc = "detected"
    /\ { u_conflicts[k].type : k \in DOMAIN u_conflicts }
          = { "factual_disagreement", "priority_disagreement",
              "methodological_conflict", "strategic_divergence" }

\* C12: resolving one factual disagreement compares evidence_strength =
\* (number of evidence items) x confidence of the two positions: the strictly
\* weaker side's confidence is multiplied by 0.5 and the stronger side's is
\* unchanged; on a tie both are multiplied by 0.8.
C12_FactualByEvidenceStrength ==
    [][ (/\ u_pc = "detected" /\ u_pc' = "resolved"
         /\ Len(u_conflicts) = 1
         /\ u_conflicts[1].type = "factual_disagreement")
        => LET p1 == ThoughtOf(u_map, u_conflicts[1].role1)
               p2 == ThoughtOf(u_map, u_conflicts[1].role2)
               q1 == ThoughtOf(u_map', u_conflicts[1].role1)
               q2 == ThoughtOf(u_map', u_conflicts[1].role2)
               strength1 == RMul(Rat(Len(p1.evidence), 1), p1.confidence)
               strength2 == RMul(Rat(Len(p2.evidence), 1), p2.confidence)
           IN /\ RGt(strength1, strength2) =>
                    /\ q1.confidence = p1.confidence
                    /\ q2.confidence = RMul(p2.confidence, Pct(50))
              /\ RGt(strength2, strength1) =>
                    /\ q2.confidence = p2.confidence
                    /\ q1.confidence = RMul(p1.confidence, Pct(50))
              /\ strength1 = strength2 =>
                    /\ q1.confidence = RMul(p1.confidence, Pct(80))
                    /\ q2.confidence = RMul(p2.confidence, Pct(80)) ]_vars

\* one factual disagreement was resolved against the second position: the
\* first, with one evidence item, keeps 0.4 and the second, with none, is
\* halved from 0.5 to 0.25
C12_Witness ==
    /\ u_pc = "resolved"
    /\ Len(u_conflicts) = 1
    /\ u_conflicts[1].type = "factual_disagreement"
    /\ Len(ThoughtOf(u_map, u_conflicts[1].role1).evidence) = 1
    /\ ThoughtOf(u_map, u_conflicts[1].role1).confidence = Pct(40)
    /\ ThoughtOf(u_map, u_conflicts[1].role2).evidence = <<>>
    /\ ThoughtOf(u_map, u_conflicts[1].role2).confidence = Pct(25)

\* C13: the resolver applies its policies to the conflict records in detection
\* order: the confidence of every resolved position is the one the per-record
\* mutations leave when they are composed in the order of the list the
\* detector returned, also when the types are interleaved in that list.
C13_ResolvedInDetectionOrder ==
    [][ (u_pc = "detected" /\ u_pc' = "resolved")
        => LET h == ResolveAll(HeapOf(u_map), u_conflicts)
           IN /\ DOMAIN u_map' = DOMAIN h.refs
              /\ \A i \in DOMAIN h.refs :
                    /\ u_map'[i].key = h.refs[i].key
                    /\ u_map'[i].thought.confidence
                           = h.objs[h.refs[i].ref].confidence ]_vars

\* C14: the evidence score of a participant with an empty evidence list is
\* exactly 0.0; the score of a single evidence item never exceeds 1.0 and is
\* non-decreasing in its number of specificity-keyword hits: no item of the
\* same length with at least as many hits scores less.
C14_EvidenceScoreMonotone ==
    u_pc = "evaluated" =>
        \A role \in DOMAIN u_scores.evidence_registry :
            LET evidence_list == u_scores.evidence_registry[role]
                score == u_scores.evidence_scores[role]
                Hits(e) == Len(Matches(specificity_keywords, e.words))
            IN /\ evidence_list = <<>> => score = Zero
               /\ Len(evidence_list) = 1 =>
                     /\ RLe(score, One)
                     /\ \A e \in EvidenceItems :
                           (/\ e.chars = evidence_list[1].chars
                            /\ Hits(e) >= Hits(evidence_list[1]))
                               => RLe(score, evaluate_single_evidence(e))
                     /\ \A e \in EvidenceItems :
                           (/\ e.chars = evidence_list[1].chars
                            /\ Hits(e) <= Hits(evidence_list[1]))
                               => RLe(evaluate_single_evidence(e), score)

\* an item whose hits take the score to the cap has been evaluated
C14_Witness ==
    /\ u_pc = "evaluated"
    /\ \E role \in DOMAIN u_scores.evidence_registry :
          /\ Len(u_scores.evidence_registry[role]) = 1
          /\ Cardinality(u_scores.evidence_registry[role][1].words) = 7
          /\ u_scores.evidence_scores[role] = One

\* C15: amplification is applied at most once per insight: the amplifier called
\* on an insight it has already amplified, with the same deliberation, returns
\* the confidence the insight already had.
C15_AmplifiedAtMostOnce ==
    [][(/\ u_pc = "amplified"
        /\ u_pc' = "amplified_again"
        /\ u_out.insight.insight_id[1] = "amplified"
        /\ u_delib' = u_delib)
       => u_out'.insight.confidence_score = u_out.insight.confidence_score]_vars

\* C16: after a strategy has produced an insight for a non-empty position map,
\* quality validation yields overall_score = 0.3 x (contributors / required) +
\* 0.3 x confidence + 0.2 x (1 - conflicts / required) + 0.2 x mean evidence
\* quality; the insight is then the amplified one, of confidence
\* min(1.0, confidence x (1 + 0.1 x 0.8)), exactly when overall_score < 0.8,
\* and the strategy's insight unchanged otherwise.
C16_ValidationScoreAndAmplification ==
    [][(/\ u_pc = "done"
        /\ u_pc' = "validated"
        /\ u_map # <<>>)
       => LET consensus == u_out.insight
              required == Rat(Len(u_map), 1)
              evidence_score == evaluate_evidence_quality(u_delib.evidence_registry)
              overall_score ==
                  RAdd(RAdd(RMul(Pct(30),
                                 RDiv(Rat(Len(consensus.contributing_agents), 1),
                                      required)),
                            RMul(Pct(30), consensus.confidence_score)),
                       RAdd(RMul(Pct(20),
                                 RSub(One, RDiv(Rat(Len(u_delib.conflict_log), 1),
                                                required))),
                            RMul(Pct(20),
                                 RMean([i \in DOMAIN u_map |->
                                           evidence_score[u_map[i].key]]))))
          IN /\ u_quality'.ok
             /\ u_quality'.overall_score = overall_score
             /\ u_out'.ok
             /\ u_out'.insight.confidence_score =
                    IF RLt(overall_score, Pct(80))
                    THEN RMin(One, RMul(consensus.confidence_score,
                                        RAdd(One, RMul(Pct(10), Pct(80)))))
                    ELSE consensus.confidence_score
             /\ ~RLt(overall_score, Pct(80)) => u_out'.insight = consensus]_vars

\* C17: position generation isolates participant failures: whichever of the
\* required participants' tasks raised, the returned position map has exactly
\* one entry per required participant, the entry of a participant whose task
\* raised is the placeholder of confidence 0.3, the entry of a participant
\* whose task returned is its own position, and the map is returned once
\* every task has been awaited.
C17_FailuresIsolated ==
    /\ g_pc = "returned" =>
          /\ Len(g_thoughts) = Cardinality(g_required)
          /\ Keys(g_thoughts) = g_required
          /\ \A i \in DOMAIN g_tasks :
                LET role == g_tasks[i].role
                    thought == ThoughtOf(g_thoughts, role)
                IN /\ g_tasks[i].state \in {"returned", "raised"}
                   /\ g_tasks[i].active_tasks = {}
                   /\ g_tasks[i].state = "raised" =>
                         /\ thought.agent_id = <<"fallback", role>>
                         /\ thought.agent_role = role
                         /\ thought.confidence = Pct(30)
                   /\ g_tasks[i].state = "returned" =>
                         thought = process_task(role)
    /\ g_pc = "awaiting" =>
          \A i \in DOMAIN g_thoughts :
              /\ g_thoughts[i].key = g_tasks[i].role
              /\ g_tasks[i].state = "raised" =>
                     g_thoughts[i].thought.confidence = Pct(30)

\* a map was returned in which one participant failed and another succeeded
C17_Witness ==
    /\ g_pc = "returned"
    /\ \E i, j \in DOMAIN g_tasks :
          /\ g_tasks[i].state = "raised"
          /\ g_tasks[j].state = "returned"
          /\ ThoughtOf(g_thoughts, g_tasks[i].role).confidence = Pct(30)
          /\ ThoughtOf(g_thoughts, g_tasks[j].role) = process_task(g_tasks[j].role)

\* C18: when several deliberations run concurrently on one engine, every write
\* to the shared history list and to the learner's state is made by a call
\* that holds the engine's lock, so that no two calls are inside such a write
\* at once, and no completed deliberation's record is lost: each step leaves
\* the record of every call that has ended in the history and in the learner.
C18_SharedWritesSerialized ==
    [][/\ (\/ consensus_history' # consensus_history
           \/ performance_history' # performance_history)
          => consensus_lock \in Calls
       /\ \A c \in Calls :
             (Ended(c))' =>
                 /\ \E i \in DOMAIN consensus_history' :
                       consensus_history'[i].deliberation_id
                           = <<"deliberation", task'[c].task_id>>
                 /\ performance_history' # <<>>]_vars

\* C19: Hybrid Adaptive tries Conflict Resolution (only if conflicts are
\* present), then Evidence-Based, then Collaborative Synthesis, then Weighted
\* Voting, and always yields an insight: on a map without conflicts it returns
\* the Evidence-Based result if that confidence is over 0.8, else the
\* Collaborative Synthesis result if that confidence is over 0.7, and the
\* Weighted Voting result in every remaining case.
C19_HybridOrderAlwaysYields ==
    [][(/\ u_pc \in {"ready", "resolved"}
        /\ u_pc' = "done"
        /\ u_op' = "hybrid_adaptive")
       => /\ u_out'.ok
          /\ detect_conflicts(u_map) = <<>> =>
                LET evidence_result == evidence_based_consensus(u_delib, u_map)
                    collab_result ==
                        collaborative_synthesis_consensus(u_delib, u_map)
                    final_result == weighted_voting_consensus(u_delib, u_map)
                    Same(a, b) ==
                        /\ a.contributing_agents = b.contributing_agents
                        /\ a.synthesized_content = b.synthesized_content
                        /\ a.consensus_level = b.consensus_level
                        /\ a.confidence_score = b.confidence_score
                IN IF /\ evidence_result.ok
                      /\ RGt(evidence_result.insight.confidence_score, Pct(80))
                   THEN Same(u_out'.insight, evidence_result.insight)
                   ELSE IF /\ collab_result.ok
                           /\ RGt(collab_result.insight.confidence_score, Pct(70))
                   THEN Same(u_out'.insight, collab_result.insight)
                   ELSE /\ final_result.ok
                        /\ Same(u_out'.insight, final_result.insight)]_vars

\* the sub-strategies of Hybrid Adaptive, in the order it applies them
HybridOrder ==
    << "conflict_resolution", "evidence_based", "collaborative_synthesis",
       "weighted_voting" >>

\* C20: every insight Hybrid Adaptive returns carries a synthesis-method tag
\* that names Hybrid Adaptive and then the sub-strategies that were applied,
\* in the order applied.
C20_HybridTagRecordsStrategies ==
    (u_pc = "done" /\ u_op = "hybrid_adaptive") =>
        /\ u_out.ok
        /\ LET synthesis_method == u_out.insight.synthesis_method
           IN /\ Len(synthesis_method) >= 2
              /\ synthesis_method[1] = "hybrid_adaptive"
              /\ \E applied \in SUBSET (DOMAIN HybridOrder) :
                    Tail(synthesis_method)
                        = SelectSeq(HybridOrder,
                                    LAMBDA name :
                                        \E i \in applied : HybridOrder[i] = name)

\* C21: every strategy that works on a filtered subset of the participants
\* (Specialist Authority: the lead, Evidence-Based: evidence score over 0.6,
\* Collaborative Synthesis: confidence over 0.5) returns the Weighted Voting
\* result over the unfiltered position map when that subset is empty.
C21_EmptySubsetFallsBackToWeightedVoting ==
    [][(/\ u_pc \in {"ready", "resolved"}
        /\ u_pc' = "done"
        /\ LET evidence_scores ==
                   evaluate_evidence_quality(u_delib.evidence_registry)
           IN \/ /\ u_op' = "specialist_authority"
                 /\ determine_lead_specialist(u_delib.task, u_map)
                        \notin Keys(u_map)
              \/ /\ u_op' = "evidence_based"
                 /\ \A i \in DOMAIN u_map :
                        ~RGt(DictGet(evidence_scores, u_map[i].key, Zero), Pct(60))
              \/ /\ u_op' = "collaborative_synthesis"
                 /\ \A i \in DOMAIN u_map :
                        ~RGt(u_map[i].thought.confidence, Pct(50)))
       => u_out' = weighted_voting_consensus(u_delib, u_map)]_vars

\* C22: in Specialist Authority the lead is a participant maximizing
\* (domain-keyword hits in the task text) x confidence, and the coordinator
\* role when no participant has any domain-keyword hit; with the lead among
\* the participants the insight has level specialist-override, confidence =
\* lead confidence x 0.9, contributors = the lead plus the other participants
\* with confidence over 0.6, and conflicting views = the other participants
\* with confidence under 0.4.
C22_SpecialistAuthorityLead ==
    [][(/\ u_pc \in {"ready", "resolved"}
        /\ u_pc' = "done"
        /\ u_op' = "specialist_authority"
        /\ u_map # <<>>)
       => LET Hits(role) ==
                  IF \E k \in DOMAIN specialist_keywords :
                         specialist_keywords[k].role = role
                  THEN Len(Matches(
                           specialist_keywords[
                               CHOOSE k \in DOMAIN specialist_keywords :
                                   specialist_keywords[k].role = role].keywords,
                           u_task.description))
                  ELSE 0
              Score(i) == RMul(Rat(Hits(u_map[i].key), 1), u_map[i].thought.confidence)
              Leads ==
                  IF \A i \in DOMAIN u_map : Hits(u_map[i].key) = 0
                  THEN {"queen_coordinator"}
                  ELSE { u_map[i].key : i \in
                           { j \in DOMAIN u_map :
                               \A k \in DOMAIN u_map : RLe(Score(k), Score(j)) } }
              insight == u_out'.insight
          IN (Leads \cap Keys(u_map) # {}) =>
                /\ u_out'.ok
                /\ insight.contributing_agents # <<>>
                /\ LET lead == insight.contributing_agents[1]
                       others == SelectSeq(u_map, LAMBDA e : e.key # lead)
                   IN /\ lead \in Leads
                      /\ insight.consensus_level = "specialist_override"
                      /\ insight.confidence_score
                             = RMul(ThoughtOf(u_map, lead).confidence, Pct(90))
                      /\ Tail(insight.contributing_agents)
                             = KeyList(SelectSeq(others,
                                   LAMBDA e : RGt(e.thought.confidence, Pct(60))))
                      /\ { v[1] : v \in Range(insight.conflicting_views) }
                             = Keys(SelectSeq(others,
                                   LAMBDA e : RLt(e.thought.confidence, Pct(40))))]_vars

\* C23: the Conflict Resolution strategy runs conflict detection, then
\* conflict resolution, records the detected conflicts in the deliberation's
\* conflict log, and produces its insight by running Collaborative Synthesis
\* on the resolved positions, whether or not any conflict was found.
C23_ConflictResolutionThenSynthesis ==
    [][(/\ u_pc = "ready"
        /\ u_pc' = "done"
        /\ u_op' = "conflict_resolution")
       => LET conflicts == detect_conflicts(u_map)
              logged == [u_delib EXCEPT !.conflict_log = conflicts]
              resolved_thoughts ==
                  IF conflicts = <<>> THEN u_map
                  ELSE resolve_conflicts(u_map, conflicts).resolved
              synthesis ==
                  collaborative_synthesis_consensus(logged, resolved_thoughts)
          IN /\ u_delib'.conflict_log = conflicts
             /\ u_out'.ok
             /\ synthesis.ok
             /\ u_out'.insight = synthesis.insight]_vars

\* C24: resolving one methodological conflict between participants A and B,
\* both in the map, replaces both of their entries with one and the same
\* hybrid position attributed to the coordinator, whose confidence is
\* mean(confidence A, confidence B) x 0.9 and whose evidence is the
\* duplicate-free union of both evidence lists; the positions of the other
\* participants are unchanged.
C24_MethodologicalHybrid ==
    [][(/\ u_pc = "ready"
        /\ u_pc' = "resolved"
        /\ Len(u_conflicts') = 1
        /\ u_conflicts'[1].type = "methodological_conflict"
        /\ {u_conflicts'[1].role1, u_conflicts'[1].role2} \subseteq Keys(u_map))
       => LET A == ThoughtOf(u_map, u_conflicts'[1].role1)
              B == ThoughtOf(u_map, u_conflicts'[1].role2)
              hybrid == ThoughtOf(u_map', u_conflicts'[1].role1)
          IN /\ KeyList(u_map') = KeyList(u_map)
             /\ ThoughtOf(u_map', u_conflicts'[1].role2) = hybrid
             /\ hybrid.agent_role = "queen_coordinator"
             /\ hybrid.confidence
                    = RMul(RDiv(RAdd(A.confidence, B.confidence), Rat(2, 1)), Pct(90))
             /\ Range(hybrid.evidence) = Range(A.evidence) \cup Range(B.evidence)
             /\ Len(hybrid.evidence) = Cardinality(Range(hybrid.evidence))
             /\ \A i \in DOMAIN u_map :
                   u_map[i].key \notin {u_conflicts'[1].role1, u_conflicts'[1].role2}
                       => u_map'[i] = u_map[i]]_vars

\* one methodological record was resolved between two participants of
\* different confidence that share an evidence item, beside a third participant
C24_Witness ==
    /\ u_pc = "resolved"
    /\ Len(u_conflicts) = 1
    /\ u_conflicts[1].type = "methodological_conflict"
    /\ {u_conflicts[1].role1, u_conflicts[1].role2} \subseteq Keys(u_map)
    /\ Len(u_map) = 3
    /\ LET A == ThoughtOf(u_thoughts, u_conflicts[1].role1)
           B == ThoughtOf(u_thoughts, u_conflicts[1].role2)
           hybrid == ThoughtOf(u_map, u_conflicts[1].role1)
       IN /\ A.confidence # B.confidence
          /\ Len(hybrid.evidence) < Len(A.evidence) + Len(B.evidence)
          /\ hybrid.evidence # <<>>

\* C30: resolve_conflicts preserves the participant key set: for every
\* position map and every list of conflict records, of any types, the returned
\* map has the keys of the input map, in their order; and when every record
\* names a participant absent from the map, the returned map and the caller's
\* map are the input map.
C30_ResolverPreservesKeys ==
    [][(u_pc = "ready" /\ u_pc' = "resolved")
       => /\ KeyList(u_map') = KeyList(u_map)
          /\ KeyList(u_thoughts') = KeyList(u_map)
          /\ (\A k \in DOMAIN u_conflicts' :
                  ~({u_conflicts'[k].role1, u_conflicts'[k].role2}
                        \subseteq Keys(u_map)))
                => (u_map' = u_map /\ u_thoughts' = u_map)]_vars

\* a record that names a participant absent from a non-empty map was resolved
C30_Witness ==
    /\ u_pc = "resolved"
    /\ Len(u_conflicts) = 1
    /\ u_conflicts[1].type = "priority_disagreement"
    /\ u_conflicts[1].role1 \in Keys(u_map)
    /\ u_conflicts[1].role2 \notin Keys(u_map)
    /\ u_map = u_thoughts

C26_FiveLevelsFromWeights ==
    /\ (w_cursor > 0 /\ w_last.agent_thoughts # <<>>) =>
          LET weights == w_last.voting_weights
              participants == Len(w_last.agent_thoughts)
              dominance_ratio == RDiv(RMax(weights), RSum(weights))
          IN w_last.consensus_level =
                 IF RGt(dominance_ratio, Pct(70)) THEN "specialist_override"
                 ELSE IF RGt(dominance_ratio, Pct(50)) THEN "majority_super"
                 ELSE IF Len(weights) * 100 >= participants * 70
                 THEN "majority_strong"
                 ELSE IF Len(weights) * 100 >= participants * 60
                 THEN "majority_simple"
                 ELSE "plurality"
    /\ w_cursor = NumMaps =>
          w_seen = {"specialist_override", "majority_super", "majority_strong",
                    "majority_simple", "plurality"}

\* C27: amplification changes only the insight's confidence (never lowering
\* it), its id and its synthesis-method tag: the amplified insight has the same
\* contributing agents, synthesized content, consensus level and conflicting
\* views as the insight it was given.
C27_AmplificationKeepsTheRest ==
    [][(/\ u_pc \in {"done", "amplified"}
        /\ u_pc' \in {"amplified", "amplified_again"}
        /\ u_out.ok)
       => /\ ~RLt(u_out'.insight.confidence_score, u_out.insight.confidence_score)
          /\ u_out'.insight.contributing_agents = u_out.insight.contributing_agents
          /\ u_out'.insight.synthesized_content = u_out.insight.synthesized_content
          /\ u_out'.insight.consensus_level = u_out.insight.consensus_level
          /\ u_out'.insight.conflicting_views = u_out.insight.conflicting_views]_vars

C29_ConcurrentEntriesDistinct ==
    [][\A c, d \in Calls :
         (c # d /\ InProgress(c) /\ InProgress(d) /\ elapsed[c] = elapsed[d])
         => /\ ReachConsensusArgs(task[c], agent_thoughts[c], strategy[c],
                                  voting_method[c]).deliberation_id
                 # ReachConsensusArgs(task[d], agent_thoughts[d], strategy[d],
                                      voting_method[d]).deliberation_id
            /\ ((Ended(c))' /\ (InProgress(d))')
                 => \A id \in active_deliberations :
                        id # ReachConsensusArgs(task[c], agent_thoughts[c],
                                                strategy[c], voting_method[c])
                                  .deliberation_id
                        => id \in active_deliberations']_vars

====
